---------------------------- MODULE Spec2Model ----------------------------
(***************************************************************************)
(* Model of the production-data question answering agent                   *)
(* (mongo_chatbot_2/server/agent.js): the handler returned by              *)
(* initializeProductionAgent, queryMongoDB, queryComponentDetails,         *)
(* getDefectInfo, mapDefectOccurrences, extractComponentName,              *)
(* analyzeQuery, parseQuery, handleAggregationQuery and getDateFilter.     *)
(*                                                                         *)
(* Texts are strings; a character is a string of length 1.  JavaScript     *)
(* values that may be absent (null, undefined, a missing key) are          *)
(* sequences of length at most 1: <<>> is the absent value, <<v>> is v.    *)
(***************************************************************************)
EXTENDS Integers, Sequences, FiniteSets, TLC

----------------------------------------------------------------------------
(* Text helpers: what String.prototype.includes / toLowerCase / match do.  *)

None == <<>>
Some(v) == <<v>>

CharAt(s, i) == SubSeq(s, i, i)

\* s.includes(p)
Includes(s, p) ==
    \E i \in 1..(Len(s) - Len(p) + 1) : SubSeq(s, i, i + Len(p) - 1) = p

\* p occurs in s starting at (1-based) position i
At(s, i, p) == i >= 1 /\ i + Len(p) - 1 <= Len(s) /\ SubSeq(s, i, i + Len(p) - 1) = p

\* /a.*b/ : a, then anywhere later on the same line b
IncludesThen(s, a, b) ==
    \E i \in 1..Len(s) : At(s, i, a) /\ \E j \in (i + Len(a))..Len(s) : At(s, j, b)

UpperLetters == <<"A", "B", "C", "D", "E", "F", "G", "H", "I", "J", "K", "L", "M",
                  "N", "O", "P", "Q", "R", "S", "T", "U", "V", "W", "X", "Y", "Z">>
LowerLetters == <<"a", "b", "c", "d", "e", "f", "g", "h", "i", "j", "k", "l", "m",
                  "n", "o", "p", "q", "r", "s", "t", "u", "v", "w", "x", "y", "z">>
DigitChars == <<"0", "1", "2", "3", "4", "5", "6", "7", "8", "9">>

Range(f) == {f[i] : i \in DOMAIN f}

SetMax(S) == CHOOSE m \in S : \A n \in S : n <= m
SetMin(S) == CHOOSE m \in S : \A n \in S : m <= n

IsDigit(c) == c \in Range(DigitChars)
\* \w : letters, digits and the underscore
IsWordChar(c) == c \in Range(UpperLetters) \cup Range(LowerLetters) \cup Range(DigitChars) \cup {"_"}
\* \s : the questions of the model hold no white space but the blank
IsSpace(c) == c = " "

LowerChar(c) ==
    IF c \in Range(UpperLetters)
    THEN LowerLetters[CHOOSE i \in DOMAIN UpperLetters : UpperLetters[i] = c]
    ELSE c

RECURSIVE toLowerCase(_)
toLowerCase(s) ==
    IF Len(s) = 0 THEN "" ELSE LowerChar(CharAt(s, 1)) \o toLowerCase(SubSeq(s, 2, Len(s)))

\* value of a run of decimal digits (parseInt)
DigitValue(c) == (CHOOSE i \in DOMAIN DigitChars : DigitChars[i] = c) - 1

RECURSIVE parseInt(_)
parseInt(s) ==
    IF Len(s) = 0 THEN 0
    ELSE parseInt(SubSeq(s, 1, Len(s) - 1)) * 10 + DigitValue(CharAt(s, Len(s)))

WordChars == Range(UpperLetters) \cup Range(LowerLetters) \cup Range(DigitChars) \cup {"_"}

\* end of the longest run of characters of the set C that starts at position i
\* (i - 1 when the run is empty): a greedy [C]* or [C]+
RECURSIVE RunEnd(_, _, _)
RunEnd(s, i, C) ==
    IF i <= Len(s) /\ CharAt(s, i) \in C THEN RunEnd(s, i + 1, C) ELSE i - 1

\* the same for the run of characters different from d: a greedy [^d]+
RECURSIVE RunEndNot(_, _, _)
RunEndNot(s, i, d) ==
    IF i <= Len(s) /\ CharAt(s, i) # d THEN RunEndNot(s, i + 1, d) ELSE i - 1

----------------------------------------------------------------------------
(* extractComponentName (agent.js 352-372)                                 *)

\* /d([^d]+)d/ tried at start position i: the opening delimiter, at least one
\* character that is not the delimiter, then the closing delimiter.
DelimMatchAt(s, i, d) ==
    LET e == RunEndNot(s, i + 1, d)
    IN  IF CharAt(s, i) = d /\ e >= i + 1 /\ e + 1 <= Len(s)
        THEN Some(SubSeq(s, i + 1, e))
        ELSE None

\* String.prototype.match without the g flag: the leftmost start position that matches
RECURSIVE DelimMatchFrom(_, _, _)
DelimMatchFrom(s, i, d) ==
    IF i > Len(s) THEN None
    ELSE LET m == DelimMatchAt(s, i, d)
         IN  IF m # None THEN m ELSE DelimMatchFrom(s, i + 1, d)

\* the leftmost delimited text of any of the three kinds
ExtractLeftmostDelimited(query) ==
    LET starts == {i \in 1..Len(query) :
                      \E d \in {"'", "\"", "*"} : DelimMatchAt(query, i, d) # None}
    IN  IF starts = {} THEN None
        ELSE DelimMatchAt(query, SetMin(starts), CharAt(query, SetMin(starts)))
extractComponentName(query) ==
    LET singleQuoteMatch == DelimMatchFrom(query, 1, "'")
        doubleQuoteMatch == DelimMatchFrom(query, 1, "\"")
        asteriskMatch    == DelimMatchFrom(query, 1, "*")
    IN  IF singleQuoteMatch # None THEN singleQuoteMatch
        ELSE IF doubleQuoteMatch # None THEN doubleQuoteMatch
        ELSE IF asteriskMatch # None THEN asteriskMatch
        ELSE None

----------------------------------------------------------------------------
(* Dates.  An instant of local time is <<day, ms>>: the number of the day  *)
(* counted from 1970-01-01 and the millisecond within that day (an epoch   *)
(* value in milliseconds does not fit a 32-bit integer).  The local zone   *)
(* has a fixed offset.  The arithmetic is the one ECMAScript defines for   *)
(* the Date constructor and the Date setters.                              *)

MsPerDay == 24 * 60 * 60 * 1000

\* MakeTime(hour, min, sec, ms)
MakeTime(h, mi, sec, ms) == ((h * 60 + mi) * 60 + sec) * 1000 + ms

\* MakeDate(day, time): the time may lie outside the day
MakeDate(day, time) == <<day + (time \div MsPerDay), time % MsPerDay>>

DaysInYear(y) ==
    IF y % 4 # 0 THEN 365 ELSE IF y % 100 # 0 THEN 366 ELSE IF y % 400 # 0 THEN 365 ELSE 366

DayFromYear(y) ==
    365 * (y - 1970) + ((y - 1969) \div 4) - ((y - 1901) \div 100) + ((y - 1601) \div 400)

\* number of days of the year before month mn (0 = January)
MonthStart(y, mn) ==
    LET leap == IF DaysInYear(y) = 366 THEN 1 ELSE 0
        base == <<0, 31, 59, 90, 120, 151, 181, 212, 243, 273, 304, 334>>
    IN  base[mn + 1] + (IF mn >= 2 THEN leap ELSE 0)

\* MakeDay(year, month, date): month and date may lie outside their ranges
MakeDay(year, month, date) ==
    LET ym == year + (month \div 12)
        mn == month % 12
    IN  DayFromYear(ym) + MonthStart(ym, mn) + date - 1

YearFromDay(d) ==
    CHOOSE y \in 1969..2100 : DayFromYear(y) <= d /\ d < DayFromYear(y + 1)

\* getMonth(): 0 = January
MonthFromDay(d) ==
    LET y == YearFromDay(d)
        w == d - DayFromYear(y)
    IN  CHOOSE mn \in 0..11 :
            /\ MonthStart(y, mn) <= w
            /\ (mn = 11 \/ w < MonthStart(y, mn + 1))

\* getDate(): 1 = first day of the month
DateFromDay(d) ==
    LET y == YearFromDay(d)
    IN  d - DayFromYear(y) - MonthStart(y, MonthFromDay(d)) + 1

\* getDay(): 0 = Sunday (1970-01-01 was a Thursday)
WeekDay(d) == (d + 4) % 7

\* new Date(year, month, date, hours, minutes, seconds, ms)
NewDate(year, month, date, h, mi, sec, ms) ==
    MakeDate(MakeDay(year, month, date), MakeTime(h, mi, sec, ms))

\* t.setDate(dt)
SetDate(t, dt) ==
    MakeDate(MakeDay(YearFromDay(t[1]), MonthFromDay(t[1]), dt), t[2])

\* t.setMilliseconds(ms)
SetMilliseconds(t, ms) == MakeDate(t[1], t[2] - (t[2] % 1000) + ms)

\* t.setHours(h, mi, sec, ms)
SetHours(t, h, mi, sec, ms) == MakeDate(t[1], MakeTime(h, mi, sec, ms))

----------------------------------------------------------------------------
(* getDateFilter (agent.js 514-564); now is the value of new Date()        *)

startOfDay(now) ==
    NewDate(YearFromDay(now[1]), MonthFromDay(now[1]), DateFromDay(now[1]), 0, 0, 0, 0)
\* the instant of the call itself
EndOfDayIsNow(now) == now
endOfDay(now) ==
    NewDate(YearFromDay(now[1]), MonthFromDay(now[1]), DateFromDay(now[1]), 23, 59, 59, 999)

startOfYesterday(now) == SetDate(startOfDay(now), DateFromDay(startOfDay(now)[1]) - 1)
\* midnight of today itself
EndOfYesterdayAtMidnight(now) == SetMilliseconds(startOfDay(now), 0)
endOfYesterday(now) == SetMilliseconds(startOfDay(now), -1)

startOfWeek(now) ==
    SetDate(startOfDay(now), DateFromDay(startOfDay(now)[1]) - WeekDay(startOfDay(now)[1]))

startOfLastWeek(now) == SetDate(startOfWeek(now), DateFromDay(startOfWeek(now)[1]) - 7)
\* the first instant of the current week itself
EndOfLastWeekIsStartOfWeek(now) == startOfWeek(now)
endOfLastWeek(now) == SetMilliseconds(startOfWeek(now), -1)

startOfMonth(now) == NewDate(YearFromDay(now[1]), MonthFromDay(now[1]), 1, 0, 0, 0, 0)
startOfLastMonth(now) == NewDate(YearFromDay(now[1]), MonthFromDay(now[1]) - 1, 1, 0, 0, 0, 0)
EndOfLastMonthDay30(now) ==
    NewDate(YearFromDay(now[1]), MonthFromDay(now[1]) - 1, 30, 23, 59, 59, 999)
endOfLastMonth(now) == NewDate(YearFromDay(now[1]), MonthFromDay(now[1]), 0, 23, 59, 59, 999)

Periods == {"today", "yesterday", "this week", "last week", "this month", "last month"}

getDateFilter(period, now) ==
    LET filters == [p \in Periods |->
            CASE p = "today"      -> [gte |-> startOfDay(now),       lte |-> endOfDay(now)]
              [] p = "yesterday"  -> [gte |-> startOfYesterday(now), lte |-> endOfYesterday(now)]
              [] p = "this week"  -> [gte |-> startOfWeek(now),      lte |-> endOfDay(now)]
              [] p = "last week"  -> [gte |-> startOfLastWeek(now),  lte |-> endOfLastWeek(now)]
              [] p = "this month" -> [gte |-> startOfMonth(now),     lte |-> endOfDay(now)]
              [] p = "last month" -> [gte |-> startOfLastMonth(now), lte |-> endOfLastMonth(now)]]
    IN  filters[toLowerCase(period)]

----------------------------------------------------------------------------
(* analyzeQuery (agent.js 375-386)                                         *)

IncludesAny(s, words) == \E w \in words : Includes(s, w)

analyzeQuery(query) ==
    LET lowerQuery == toLowerCase(query)
    IN  [ isBatchQuery |->
              \E i \in 1..Len(lowerQuery) :
                  /\ At(lowerQuery, i, "batch")
                  /\ \E j \in (i + 5)..Len(lowerQuery) :
                        /\ At(lowerQuery, j, "id")
                        /\ \E k \in (j + 2)..Len(lowerQuery) :
                              CharAt(lowerQuery, k) \in WordChars \cup {":", "-"},
          isNGQuery |-> IncludesAny(lowerQuery, {"ng", "not good", "defect", "reject"}),
          needsAggregation |->
              IncludesAny(lowerQuery, {"most", "max", "maximum", "highest", "lowest", "min",
                                       "minimum", "average", "sum", "total"}),
          isComparative |-> IncludesAny(lowerQuery, {"more", "less", "greater", "than", "compare"}),
          isComponentList |->
              \/ IncludesAny(lowerQuery, {"component", "part"})
              \/ IncludesThen(lowerQuery, "what", "component")
              \/ IncludesThen(lowerQuery, "which", "component")
              \/ IncludesThen(lowerQuery, "list", "component"),
          isGeneralQuery |->
              \/ IncludesThen(lowerQuery, "what", "data")
              \/ IncludesThen(lowerQuery, "which", "data")
              \/ IncludesThen(lowerQuery, "available", "data")
              \/ IncludesThen(lowerQuery, "have", "data") ]

----------------------------------------------------------------------------
(* The regular expressions of parseQuery (agent.js 409, 425, 430, 431, 463) *)

\* /(k1|k2)[skip]*([tok]+)/i tried at start position i.  The greedy [skip]* gives
\* characters back when the token cannot start after it, so the token starts at the
\* last position of the skipped run (or right after it) that holds a token character.
KeywordTokenAt(s, ls, i, keywords, skip, tok) ==
    LET ks == {k \in keywords : At(ls, i, k)}
    IN  IF ks = {} THEN None
        ELSE LET k     == CHOOSE kk \in ks : TRUE
                 p     == i + Len(k)
                 se    == RunEnd(s, p, skip)
                 cands == {t \in p..(se + 1) : t <= Len(s) /\ CharAt(s, t) \in tok}
             IN  IF cands = {} THEN None
                 ELSE Some(SubSeq(s, SetMax(cands), RunEnd(s, SetMax(cands), tok)))

\* ls is the text in lower case: the patterns carry the i flag
RECURSIVE KeywordTokenFrom(_, _, _, _, _, _)
KeywordTokenFrom(s, ls, i, keywords, skip, tok) ==
    IF i > Len(s) THEN None
    ELSE LET m == KeywordTokenAt(s, ls, i, keywords, skip, tok)
         IN  IF m # None THEN m ELSE KeywordTokenFrom(s, ls, i + 1, keywords, skip, tok)

\* query.match(/(batch|lot)[:\s]*([\w_:\-]+)/i)[2]
batchMatch(query) ==
    KeywordTokenFrom(query, toLowerCase(query), 1, {"batch", "lot"}, {":", " "},
                     WordChars \cup {":", "-"})

\* query.match(/(component|part)[:\s]*([\w_]+)/i)[2]
componentMatch(query) ==
    KeywordTokenFrom(query, toLowerCase(query), 1, {"component", "part"}, {":", " "}, WordChars)

\* query.match(/(today|yesterday|this week|last week|this month|last month)/i)[1]
RelativeAt(s, ls, i) ==
    LET ks == {k \in Periods : At(ls, i, k)}
    IN  IF ks = {} THEN None
        ELSE Some(SubSeq(s, i, i + Len(CHOOSE k \in ks : TRUE) - 1))

RECURSIVE RelativeFrom(_, _, _)
RelativeFrom(s, ls, i) ==
    IF i > Len(s) THEN None
    ELSE LET m == RelativeAt(s, ls, i)
         IN  IF m # None THEN m ELSE RelativeFrom(s, ls, i + 1)

relativeDateMatch(query) == RelativeFrom(query, toLowerCase(query), 1)

\* query.match(/\b(\d{2}[_\/\-]\d{2}[_\/\-]\d{4})\b/i)[1]
DateSeparators == {"_", "/", "-"}

AbsoluteAt(s, i) ==
    IF /\ i + 9 <= Len(s)
       /\ (i = 1 \/ CharAt(s, i - 1) \notin WordChars)
       /\ \A k \in {0, 1, 3, 4, 6, 7, 8, 9} : IsDigit(CharAt(s, i + k))
       /\ \A k \in {2, 5} : CharAt(s, i + k) \in DateSeparators
       /\ (i + 10 > Len(s) \/ CharAt(s, i + 10) \notin WordChars)
    THEN Some(SubSeq(s, i, i + 9))
    ELSE None

RECURSIVE AbsoluteFrom(_, _)
AbsoluteFrom(s, i) ==
    IF i > Len(s) THEN None
    ELSE LET m == AbsoluteAt(s, i)
         IN  IF m # None THEN m ELSE AbsoluteFrom(s, i + 1)

absoluteDateMatch(query) == AbsoluteFrom(query, 1)

\* query.match(/(production|quantity)[\s\S]*?(\d+)/i)[2]: the first run of digits
\* after the leftmost keyword that has a digit after it
ProductionAt(s, ls, i) ==
    LET ks == {k \in {"production", "quantity"} : At(ls, i, k)}
    IN  IF ks = {} THEN None
        ELSE LET p  == i + Len(CHOOSE k \in ks : TRUE)
                 ds == {t \in p..Len(s) : IsDigit(CharAt(s, t))}
             IN  IF ds = {} THEN None
                 ELSE Some(SubSeq(s, SetMin(ds), RunEnd(s, SetMin(ds), Range(DigitChars))))

RECURSIVE ProductionFrom(_, _, _)
ProductionFrom(s, ls, i) ==
    IF i > Len(s) THEN None
    ELSE LET m == ProductionAt(s, ls, i)
         IN  IF m # None THEN m ELSE ProductionFrom(s, ls, i + 1)

productionMatch(query) == ProductionFrom(query, toLowerCase(query), 1)

\* dateStr.replace(/_/g, "-")
RECURSIVE ReplaceUnderscores(_)
ReplaceUnderscores(s) ==
    IF Len(s) = 0 THEN ""
    ELSE (IF CharAt(s, 1) = "_" THEN "-" ELSE CharAt(s, 1)) \o ReplaceUnderscores(SubSeq(s, 2, Len(s)))

\* new Date(dateStr) for the texts nn-nn-nnnn and nn/nn/nnnn.  The form is not an
\* ISO date, so the engine's own parser decides: Node's (V8) reads month, day, year
\* in local time, accepts a month 1..12 and a day 1..31, and yields an invalid date
\* (None here) otherwise.
ParseDate(dateStr) ==
    LET month == parseInt(SubSeq(dateStr, 1, 2))
        day   == parseInt(SubSeq(dateStr, 4, 5))
        year  == parseInt(SubSeq(dateStr, 7, 10))
    IN  IF month \in 1..12 /\ day \in 1..31
        THEN Some(NewDate(year, month - 1, day, 0, 0, 0, 0))
        ELSE None

----------------------------------------------------------------------------
(* parseQuery (agent.js 403-478).  A predicate is a record of the five     *)
(* keys the function can set; None is a key that is not set.               *)

EmptyConditions ==
    [batch_id |-> None, component_name |-> None, date |-> None, ng_parts |-> None, or |-> None]

\* lines 409-422
BatchCondition(query) ==
    LET m == batchMatch(query)
    IN  IF m = None THEN None
        ELSE LET batchId == m[1]
             IN  IF Includes(batchId, "_") \/ Includes(batchId, ":") \/ Includes(batchId, "-")
                 THEN Some([regex |-> FALSE, value |-> batchId])
                 ELSE Some([regex |-> TRUE, value |-> batchId])

\* lines 425-427
ComponentCondition(query) ==
    LET m == componentMatch(query)
    IN  IF m = None THEN None ELSE Some([regex |-> TRUE, value |-> m[1]])

\* lines 437-446: the day of the absolute date, None when it does not parse
AbsoluteDateCondition(query) ==
    LET m == absoluteDateMatch(query)
    IN  IF m = None THEN None
        ELSE LET dateObj == ParseDate(ReplaceUnderscores(m[1]))
             IN  IF dateObj = None THEN None
                 ELSE Some([gte |-> SetHours(dateObj[1], 0, 0, 0, 0),
                            lte |-> SetHours(dateObj[1], 23, 59, 59, 999)])

\* the absolute date first
DateConditionAbsoluteFirst(query, now) ==
    LET m == relativeDateMatch(query)
    IN  IF AbsoluteDateCondition(query) # None THEN AbsoluteDateCondition(query)
        ELSE IF m # None THEN Some(getDateFilter(m[1], now))
        ELSE None
\* lines 429-447
DateCondition(query, now) ==
    LET m == relativeDateMatch(query)
    IN  IF m # None THEN Some(getDateFilter(m[1], now)) ELSE AbsoluteDateCondition(query)

\* lines 449-452
NGCondition(queryAnalysis) ==
    IF queryAnalysis.isNGQuery THEN Some([exists |-> TRUE, gt |-> 0]) ELSE None

\* lines 454-469: the quantity threshold is assigned after, and over, the performance clause
OrCondition(query) ==
    LET perf == IF IncludesAny(toLowerCase(query), {"performance", "efficiency", "quality"})
                THEN Some(<<[field |-> "performance", op |-> "exists, $ne null", n |-> 0],
                            [field |-> "quality", op |-> "exists, $ne null", n |-> 0]>>)
                ELSE None
        m == productionMatch(query)
    IN  IF m # None
        THEN Some(<<[field |-> "actual_production", op |-> "$gte", n |-> parseInt(m[1])],
                    [field |-> "planned_quantity", op |-> "$gte", n |-> parseInt(m[1])]>>)
        ELSE perf

\* the conditions object as it stands at line 470
BuiltConditions(query, now) ==
    [batch_id       |-> BatchCondition(query),
     component_name |-> ComponentCondition(query),
     date           |-> DateCondition(query, now),
     ng_parts       |-> NGCondition(analyzeQuery(query)),
     or             |-> OrCondition(query)]

\* the component list not tested at line 472
ParseQueryKeepsList(query, now) ==
    IF analyzeQuery(query).isGeneralQuery THEN EmptyConditions ELSE BuiltConditions(query, now)
parseQuery(query, now) ==
    LET queryAnalysis == analyzeQuery(query)
    IN  IF queryAnalysis.isGeneralQuery \/ queryAnalysis.isComponentList
        THEN EmptyConditions
        ELSE BuiltConditions(query, now)

----------------------------------------------------------------------------
(* The date filtering of the older parseQuery (unnamed/part_000 340-357,   *)
(* unnamed/part_001 119-136) and the older getDateFilter                   *)

\* \d{2}[_\/\-]\d{2}[_\/\-]\d{4} tried at position i
OlderAbsoluteAt(s, i) ==
    IF /\ i + 9 <= Len(s)
       /\ \A k \in {0, 1, 3, 4, 6, 7, 8, 9} : IsDigit(CharAt(s, i + k))
       /\ \A k \in {2, 5} : CharAt(s, i + k) \in DateSeparators
    THEN Some(SubSeq(s, i, i + 9))
    ELSE None

\* query.match(/(today|...|last month|\d{2}[_\/\-]\d{2}[_\/\-]\d{4})/i)[1]: one pattern
\* of seven alternatives, matched at the leftmost position where one of them matches
RECURSIVE OlderDateFrom(_, _, _)
OlderDateFrom(s, ls, i) ==
    IF i > Len(s) THEN None
    ELSE IF RelativeAt(s, ls, i) # None THEN RelativeAt(s, ls, i)
    ELSE IF OlderAbsoluteAt(s, i) # None THEN OlderAbsoluteAt(s, i)
    ELSE OlderDateFrom(s, ls, i + 1)

dateMatch(query) == OlderDateFrom(query, toLowerCase(query), 1)

\* getDateFilter of part_000 424-468 and part_001 181-225
OlderGetDateFilter(period, now) ==
    LET p == toLowerCase(period)
    IN  CASE p = "today"      -> [gte |-> startOfDay(now), lte |-> now]
          [] p = "yesterday"  -> [gte |-> startOfYesterday(now), lte |-> startOfDay(now)]
          [] p = "this week"  -> [gte |-> startOfWeek(now), lte |-> now]
          [] p = "last week"  -> [gte |-> startOfLastWeek(now), lte |-> startOfWeek(now)]
          [] p = "this month" -> [gte |-> startOfMonth(now), lte |-> now]
          [] p = "last month" -> [gte |-> startOfLastMonth(now),
                                  lte |-> NewDate(YearFromDay(now[1]), MonthFromDay(now[1]), 0,
                                                  0, 0, 0, 0)]

\* the absolute date whenever the question holds one
OlderDateConditionAbsoluteFirst(query, now) ==
    LET m == dateMatch(query)
        a == AbsoluteFrom(query, 1)
    IN  IF a # None
        THEN LET dateObj == ParseDate(ReplaceUnderscores(a[1]))
             IN  IF dateObj = None THEN None
                 ELSE Some([gte |-> SetHours(dateObj[1], 0, 0, 0, 0),
                            lte |-> SetHours(dateObj[1], 23, 59, 59, 999)])
        ELSE IF m = None THEN None ELSE Some(OlderGetDateFilter(m[1], now))
\* part_000 340-357, part_001 119-136: conditions.date
OlderDateCondition(query, now) ==
    LET m == dateMatch(query)
    IN  IF m = None THEN None
        ELSE IF OlderAbsoluteAt(m[1], 1) # None
        THEN LET dateObj == ParseDate(ReplaceUnderscores(m[1]))
             IN  IF dateObj = None THEN None
                 ELSE Some([gte |-> SetHours(dateObj[1], 0, 0, 0, 0),
                            lte |-> SetHours(dateObj[1], 23, 59, 59, 999)])
        ELSE Some(OlderGetDateFilter(m[1], now))

----------------------------------------------------------------------------
(* handleAggregationQuery (agent.js 480-512): the pipeline it runs.        *)
(* A stage is [stage, field, n]: n is the bound of a $match ($gt n), the   *)
(* direction of a $sort and the count of a $limit.                         *)

NGPipeline ==
    << [stage |-> "$match", field |-> "ng_parts", n |-> 0],
       [stage |-> "$sort",  field |-> "ng_parts", n |-> -1],
       [stage |-> "$limit", field |-> "",         n |-> 10] >>

ComponentListPipeline ==
    << [stage |-> "$group", field |-> "component_name", n |-> 0,
        accumulators |-> [total_batches    |-> <<"$sum", "1">>,
                          total_production |-> <<"$sum", "$actual_production">>,
                          latest_date      |-> <<"$max", "$date">>]],
       [stage |-> "$sort",  field |-> "total_production", n |-> -1] >>

MaxProductionPipeline ==
    << [stage |-> "$sort",  field |-> "actual_production", n |-> -1],
       [stage |-> "$limit", field |-> "", n |-> 10] >>

DefaultPipeline ==
    << [stage |-> "$sort",  field |-> "date", n |-> -1],
       [stage |-> "$limit", field |-> "", n |-> 20] >>

\* the component list tested before the NG parts
AggregationPipelineListFirst(queryAnalysis) ==
    IF queryAnalysis.isComponentList THEN ComponentListPipeline
    ELSE IF queryAnalysis.isNGQuery THEN NGPipeline
    ELSE IF queryAnalysis.needsAggregation THEN MaxProductionPipeline
    ELSE DefaultPipeline
AggregationPipeline(queryAnalysis) ==
    IF queryAnalysis.isNGQuery THEN NGPipeline
    ELSE IF queryAnalysis.isComponentList THEN ComponentListPipeline
    ELSE IF queryAnalysis.needsAggregation THEN MaxProductionPipeline
    ELSE DefaultPipeline

----------------------------------------------------------------------------
(* The defect catalog: getDefectInfo (agent.js 55-78) and                  *)
(* mapDefectOccurrences (agent.js 81-108)                                  *)

\* lines 63-71: the lookup built from the documents of the Defects collection; a
\* later document replaces an earlier one of the same defect_id
DefectMapOf(docs) ==
    [id \in {docs[i].defect_id : i \in DOMAIN docs} |->
        LET last == docs[SetMax({i \in DOMAIN docs : docs[i].defect_id = id})]
        IN  [defect_class  |-> last.defect_class,
             description   |-> last.description,
             is_acceptable |-> last.is_acceptable,
             defect_type   |-> last.defect_type]]

\* lines 74-77: the catalog when reading the Defects collection fails
EmptyDefectMap == DefectMapOf(<<>>)

\* a || b on texts: the empty text is falsy
OrElse(a, b) == IF a # "" THEN a ELSE b

\* line 86.  i is the position in the sequence, 1-based: the array index is i - 1
DefectIdOfOffByOne(i) == i - 1
DefectIdOf(i) == (i - 1) + 1

\* the callback without the branch of lines 95-103
MapOneKnownOnly(mapped, count, i, defectMap, defectType) ==
    LET defectId == DefectIdOf(i)
    IN  IF count > 0 /\ defectId \in DOMAIN defectMap
        THEN (defectMap[defectId].defect_class :>
                 [count |-> count, description |-> defectMap[defectId].description,
                  is_acceptable |-> defectMap[defectId].is_acceptable,
                  defect_type |-> OrElse(defectType, defectMap[defectId].defect_type)]) @@ mapped
        ELSE mapped
\* lines 87-103: what the callback does with the count at position i; mapped is
\* the object built so far, an assignment to a key replaces the key's entry
MapOne(mapped, count, i, defectMap, defectType) ==
    LET defectId == DefectIdOf(i)
    IN  IF count > 0 /\ defectId \in DOMAIN defectMap
        THEN (defectMap[defectId].defect_class :>
                 [count |-> count, description |-> defectMap[defectId].description,
                  is_acceptable |-> defectMap[defectId].is_acceptable,
                  defect_type |-> OrElse(defectType, defectMap[defectId].defect_type)]) @@ mapped
        ELSE IF count > 0
        THEN (("Unknown_Defect_" \o ToString(defectId)) :>
                 [count |-> count,
                  description |-> "Unknown defect with ID " \o ToString(defectId),
                  is_acceptable |-> "unknown",
                  defect_type |-> OrElse(defectType, "unknown")]) @@ mapped
        ELSE mapped

\* forEach, in index order
RECURSIVE MapFrom(_, _, _, _, _)
MapFrom(mapped, defectOccurrences, i, defectMap, defectType) ==
    IF i > Len(defectOccurrences) THEN mapped
    ELSE MapFrom(MapOne(mapped, defectOccurrences[i], i, defectMap, defectType),
                 defectOccurrences, i + 1, defectMap, defectType)

mapDefectOccurrences(defectOccurrences, defectMap, defectType) ==
    MapFrom(<<>>, defectOccurrences, 1, defectMap, defectType)

----------------------------------------------------------------------------
(* Component records: the decision tables (agent.js 24-38) and the record  *)
(* formatting of queryComponentDetails (agent.js 131-227)                  *)

COMPONENT_DECISIONS == (0 :> "OK") @@ (1 :> "NG") @@ (2 :> "Maybe") @@ (3 :> "Rework") @@ (4 :> "Unknown Status")
IMAGE_DECISIONS == (0 :> "OK") @@ (1 :> "NG") @@ (2 :> "Maybe")

\* Date.prototype.toISOString of the instant t, in UTC
RECURSIVE Pad(_, _)
Pad(str, width) == IF Len(str) >= width THEN str ELSE Pad("0" \o str, width)

toISOString(t) ==
    Pad(ToString(YearFromDay(t[1])), 4) \o "-" \o Pad(ToString(MonthFromDay(t[1]) + 1), 2)
        \o "-" \o Pad(ToString(DateFromDay(t[1])), 2)
        \o "T" \o Pad(ToString(t[2] \div 3600000), 2)
        \o ":" \o Pad(ToString((t[2] \div 60000) % 60), 2)
        \o ":" \o Pad(ToString((t[2] \div 1000) % 60), 2)
        \o "." \o Pad(ToString(t[2] % 1000), 3) \o "Z"

\* new Date(string) for the strings of the model: a text of the form
\* YYYY-MM-DDTHH:mm:ss.sssZ with a day of the calendar is that instant, any other
\* text of the model is no date (None: an invalid Date)
ParseDateString(str) ==
    LET Digits(a, b) == \A k \in a..b : IsDigit(CharAt(str, k))
        Num(a, b)    == parseInt(SubSeq(str, a, b))
    IN  IF /\ Len(str) = 24
           /\ Digits(1, 4) /\ CharAt(str, 5) = "-" /\ Digits(6, 7) /\ CharAt(str, 8) = "-"
           /\ Digits(9, 10) /\ CharAt(str, 11) = "T" /\ Digits(12, 13) /\ CharAt(str, 14) = ":"
           /\ Digits(15, 16) /\ CharAt(str, 17) = ":" /\ Digits(18, 19) /\ CharAt(str, 20) = "."
           /\ Digits(21, 23) /\ CharAt(str, 24) = "Z"
           /\ Num(6, 7) \in 1..12 /\ Num(9, 10) >= 1
           /\ MakeDay(Num(1, 4), Num(6, 7) - 1, Num(9, 10)) < MakeDay(Num(1, 4), Num(6, 7), 1)
           /\ Num(12, 13) <= 23 /\ Num(15, 16) <= 59 /\ Num(18, 19) <= 59
        THEN Some(MakeDate(MakeDay(Num(1, 4), Num(6, 7) - 1, Num(9, 10)),
                           MakeTime(Num(12, 13), Num(15, 16), Num(18, 19), Num(21, 23))))
        ELSE None

\* parseInt(string) of line 137: the number of the leading digits, None (NaN) when
\* the text does not start with a digit
ParseLong(str) ==
    IF Len(str) = 0 \/ ~IsDigit(CharAt(str, 1)) THEN None
    ELSE Some(parseInt(SubSeq(str, 1, RunEnd(str, 1, Range(DigitChars)))))

\* new Date(milliseconds)
DateOfEpoch(ms) == MakeDate(0, ms)

\* new Date(...).toISOString() inside the try of lines 134-149: toISOString raises a
\* RangeError on an invalid Date, and the catch sets the marker
IsoOrMarker(date) == IF date = None THEN "Invalid timestamp" ELSE toISOString(date[1])

\* lines 133-149.  The timestamp field of a record is None (no field) or Some of
\* [enc, text, number]: enc "numberLong" is {$date: {$numberLong: text}}, "date" is
\* {$date: text}, "string" is the text itself and "number" the number itself.  A
\* number 0 and an empty string are falsy.
timestamp(field) ==
    IF field = None THEN "Unknown"
    ELSE LET ts == field[1]
         IN
         CASE ts.enc = "numberLong" ->
                IF ts.text # ""
                THEN IsoOrMarker(IF ParseLong(ts.text) = None THEN None
                                 ELSE Some(DateOfEpoch(ParseLong(ts.text)[1])))
                ELSE "Invalid timestamp"
           [] ts.enc = "date" ->
                IF ts.text # "" THEN IsoOrMarker(ParseDateString(ts.text)) ELSE "Unknown"
           [] ts.enc = "number" ->
                IF ts.number # 0 THEN IsoOrMarker(Some(DateOfEpoch(ts.number))) ELSE "Unknown"
           [] ts.enc = "string" ->
                IF ts.text # "" THEN IsoOrMarker(ParseDateString(ts.text)) ELSE "Unknown"

\* the code left out of the text for a code outside the table
RenderDecisionWithoutCode(table, code) ==
    IF code \in DOMAIN table THEN table[code] ELSE "Unknown"
\* TABLE[code] || `Unknown (${code})`
RenderDecision(table, code) ==
    IF code \in DOMAIN table THEN table[code] ELSE "Unknown (" \o ToString(code) \o ")"

\* lines 165-223, for the fields the model's image records carry.  ocr_algorithm
\* is "absent" (no ocr_metadata.algorithm), "array" (a list, here without elements)
\* or "object": an object has no map method and line 197 raises a TypeError.
FormatImage(image) ==
    [decision      |-> RenderDecision(IMAGE_DECISIONS, image.decision),
     decision_code |-> image.decision,
     legend        |-> "No legend",
     ocr_defects   |-> IF image.ocr_algorithm = "array" THEN Some(<<>>) ELSE None]

FormatRaises(components) ==
    \E c \in DOMAIN components : \E k \in DOMAIN components[c].images :
        components[c].images[k].ocr_algorithm = "object"

MapNotAFunction == "(image.ocr_metadata.algorithm || []).map is not a function"

\* lines 151-161 and 226
FormatComponent(component, total) ==
    [component_id            |-> component.component_id,
     timestamp               |-> timestamp(component.timestamp),
     component_decision      |-> RenderDecision(COMPONENT_DECISIONS, component.component_decision),
     component_decision_code |-> component.component_decision,
     total_records_found     |-> total,
     images                  |-> [k \in DOMAIN component.images |-> FormatImage(component.images[k])]]

\* JSON.stringify(value, null, 2): a text that determines the value
Stringify(value) == ToString(value)

\* lines 123-125
EmptyCollectionMessage(componentName) ==
    "No data found in collection '" \o componentName \o "'. The collection exists but is empty."

\* the catch with one text for the two named failures
ComponentErrorMessageOneText(componentName, message) ==
    IF Includes(message, "collection name must be a string")
          \/ Includes(message, "ns not found") \/ Includes(message, "Collection")
    THEN "Error: No collection found for component '" \o componentName
             \o "'. Please verify the component name exists in the database."
    ELSE "Error querying component '" \o componentName \o "': " \o message
\* lines 230-241: the catch of queryComponentDetails
ComponentErrorMessage(componentName, message) ==
    IF Includes(message, "collection name must be a string")
    THEN "Error: Invalid component name '" \o componentName
             \o "'. Please check the component name and try again."
    ELSE IF Includes(message, "ns not found") \/ Includes(message, "Collection")
    THEN "Error: No collection found for component '" \o componentName
             \o "'. Please verify the component name exists in the database."
    ELSE "Error querying component '" \o componentName \o "': " \o message

----------------------------------------------------------------------------
(* Report records: the enrichment and projection of queryMongoDB           *)
(* (agent.js 286-340)                                                      *)

\* the defectType argument of the three calls (lines 292-314)
OccurrenceFields ==
    ("defect_occurrences" :> "object_detection") @@ ("ocr_defect_occurrences" :> "ocr")
        @@ ("dimensional_defect_occurrences" :> "dimensional")

PlainFields == {"batch_id", "component_name", "date", "actual_production", "ng_parts"}

\* lines 287-318 and 325-338, for the fields the model's records carry: a field the
\* record lacks (undefined) is a key the result lacks
FormatReport(item, defectMap) ==
    [f \in (PlainFields \cup DOMAIN OccurrenceFields) \cap DOMAIN item |->
        IF f \in PlainFields THEN item[f]
        ELSE mapDefectOccurrences(item[f], defectMap, OccurrenceFields[f])]

NoReportsMessage == "No production reports found matching your query."

\* the projection without the test of lines 320-322
ReportsResultUntested(results, defectMap) ==
    Stringify([k \in DOMAIN results |-> FormatReport(results[k], defectMap)])
\* lines 320-340
ReportsResult(results, defectMap) ==
    IF Len(results) = 0 THEN NoReportsMessage
    ELSE Stringify([k \in DOMAIN results |-> FormatReport(results[k], defectMap)])

\* lines 341-343: the catch of queryMongoDB
QueryErrorMessage(message) == "Error querying database: " \o message

\* lines 344-348: the finally of queryMongoDB closes the client it holds
FinallyClosesConnectedOnly(client) == client = "connected"
FinallyCloses(client) == client # "none"

----------------------------------------------------------------------------
(* The handler returned by initializeProductionAgent (agent.js 596-712)    *)

\* the test without the i flag and without toLowerCase
HasComponentKeywordsCaseSensitive(question) ==
    IncludesAny(question,
                {"component", "part", "inspect", "defect", "status", "decision", "image"})
\* the test without the words component and part
HasInspectionKeywords(question) ==
    IncludesAny(toLowerCase(question), {"inspect", "defect", "status", "decision", "image"})
\* line 599
hasComponentKeywords(question) ==
    IncludesAny(toLowerCase(question),
                {"component", "part", "inspect", "defect", "status", "decision", "image"})

\* lines 603-613 (the first line of the message)
HelpMessage ==
    "I can help you with component inspection details! Please specify the component name using quotes or asterisks, for example:"

InvalidKeyMessage ==
    "Error: Invalid Google Gemini API key. Please check your API key configuration."
SorryMessage ==
    "Sorry, I encountered an error processing your request. Please try again."

\* lines 700-711: the catch of the handler; message is error.message
HandlerCatchRethrowsOthers(message) ==
    IF Includes(message, "API_KEY_INVALID") \/ Includes(message, "API key not valid")
    THEN [outcome |-> "resolved", value |-> InvalidKeyMessage]
    ELSE [outcome |-> "rejected", value |-> message]
HandlerCatch(message) ==
    IF Includes(message, "API_KEY_INVALID") \/ Includes(message, "API key not valid")
    THEN [outcome |-> "resolved", value |-> InvalidKeyMessage]
    ELSE [outcome |-> "resolved", value |-> SorryMessage]

\* lines 620-692: the prompt names the kind of data, the question and the data
Prompt(question, componentName, dbResults) ==
    [kind      |-> IF componentName # None THEN "component inspection" ELSE "production",
     question  |-> question,
     dbResults |-> dbResults]

----------------------------------------------------------------------------
(* The store, as the MongoDB driver answers the calls the code makes       *)

Before(a, b) == a[1] < b[1] \/ (a[1] = b[1] /\ a[2] <= b[2])

\* cursor.limit(n)
FirstN(seq, n) == SubSeq(seq, 1, IF Len(seq) < n THEN Len(seq) ELSE n)

\* $sort descending: the records in the order of their keys (keys[i] is the key of
\* seq[i]), largest first, records of equal keys in the order of the collection
RECURSIVE SortDesc(_, _)
SortDesc(seq, keys) ==
    IF seq = <<>> THEN <<>>
    ELSE LET m == SetMin({i \in DOMAIN seq : \A j \in DOMAIN seq : keys[j] <= keys[i]})
         IN  <<seq[m]>> \o SortDesc(SubSeq(seq, 1, m - 1) \o SubSeq(seq, m + 1, Len(seq)),
                                    SubSeq(keys, 1, m - 1) \o SubSeq(keys, m + 1, Len(keys)))

\* does a report record satisfy a predicate of parseQuery
Matches(doc, conditions) ==
    /\ conditions.batch_id # None =>
          IF conditions.batch_id[1].regex
          THEN Includes(toLowerCase(doc.batch_id), toLowerCase(conditions.batch_id[1].value))
          ELSE doc.batch_id = conditions.batch_id[1].value
    /\ conditions.component_name # None =>
          Includes(toLowerCase(doc.component_name), toLowerCase(conditions.component_name[1].value))
    /\ conditions.date # None =>
          Before(conditions.date[1].gte, doc.date) /\ Before(doc.date, conditions.date[1].lte)
    /\ conditions.ng_parts # None => doc.ng_parts > 0
    /\ conditions.or # None =>
          \E k \in DOMAIN conditions.or[1] :
              LET clause == conditions.or[1][k]
              IN  /\ clause.field \in DOMAIN doc
                  /\ clause.op = "$gte" => doc[clause.field] >= clause.n

\* collection.find(mongoQuery).limit(20).toArray() on Reports (agent.js 283)
FindReports(collection, mongoQuery) ==
    LET Hit(doc) == Matches(doc, mongoQuery)
    IN  FirstN(SelectSeq(collection, Hit), 20)

\* $group by component_name, then $sort by total_production descending
GroupByComponent(collection) ==
    LET names == {collection[i].component_name : i \in DOMAIN collection}
        Total(name) == LET Of(doc) == doc.component_name = name
                           RECURSIVE Sum(_)
                           Sum(seq) == IF seq = <<>> THEN 0
                                       ELSE Head(seq).actual_production + Sum(Tail(seq))
                       IN  Sum(SelectSeq(collection, Of))
        Count(name) == Cardinality({i \in DOMAIN collection : collection[i].component_name = name})
        Latest(name) == CHOOSE d \in {collection[i].date : i \in DOMAIN collection} :
                            /\ \E i \in DOMAIN collection :
                                  collection[i].component_name = name /\ collection[i].date = d
                            /\ \A i \in DOMAIN collection :
                                  collection[i].component_name = name => Before(collection[i].date, d)
        RECURSIVE Groups(_)
        Groups(left) ==
            IF left = {} THEN <<>>
            ELSE LET top == CHOOSE n \in left : \A o \in left : Total(o) <= Total(n)
                 IN  <<[_id |-> top, total_batches |-> Count(top), total_production |-> Total(top),
                        latest_date |-> Latest(top)]>>
                         \o Groups(left \ {top})
    IN  Groups(names)

\* collection.aggregate(pipeline).toArray() on Reports (agent.js 511)
Aggregate(collection, pipeline) ==
    LET Positive(doc) == doc.ng_parts > 0
        matched == SelectSeq(collection, Positive)
        Newest == CHOOSE order \in [1..Len(collection) -> DOMAIN collection] :
                      /\ \A i, j \in DOMAIN order : i # j => order[i] # order[j]
                      /\ \A i, j \in DOMAIN order :
                            i < j => Before(collection[order[j]].date, collection[order[i]].date)
                                     /\ (collection[order[j]].date = collection[order[i]].date
                                            => order[i] < order[j])
    IN  IF pipeline = NGPipeline THEN FirstN(SortDesc(matched, [i \in DOMAIN matched |-> matched[i].ng_parts]), 10)
        ELSE IF pipeline = ComponentListPipeline THEN GroupByComponent(collection)
        ELSE IF pipeline = MaxProductionPipeline THEN FirstN(SortDesc(collection, [i \in DOMAIN collection |-> collection[i].actual_production]), 10)
        ELSE FirstN([i \in 1..Len(collection) |-> collection[Newest[i]]], 20)

\* db.collection(componentName).find({}).limit(20).toArray() (agent.js 116-121): a
\* collection the database does not hold reads as an empty one, without an error
\* without the limit of line 121
FindComponentsUnlimited(partitions, componentName) ==
    IF componentName \in DOMAIN partitions THEN partitions[componentName] ELSE <<>>
FindComponents(partitions, componentName) ==
    IF componentName \in DOMAIN partitions THEN FirstN(partitions[componentName], 20) ELSE <<>>

----------------------------------------------------------------------------
(* Bounds and the values the model draws its inputs from                   *)

MaxReports == 2        \* records in the Reports collection
MaxComponents == 1     \* records in a component collection
MaxDefects == 2        \* documents in the Defects collection
MaxOccurrences == 3    \* length of an occurrence array
MaxQueryLen == 6       \* length of the generated questions
MaxYear == 2024        \* last year of the current instants
NumYears == 2          \* years of current instants, ending with MaxYear
MaxPartition == 21     \* records in the long component collection
MaxLookups == 2        \* failed lookups of the lookup model
MaxRequests == 2       \* requests the server receives
MaxSends == 2          \* requests the chat client sends
MaxSubmits == 3        \* submit events of the chat client

SeqsUpTo(S, n) == UNION {[1..k -> S] : k \in 0..n}

\* the instant the requests of the handler model are made at
RequestTime == NewDate(2025, 0, 15, 12, 0, 0, 0)

ReportDocs ==
    { [batch_id |-> "B_14_01", component_name |-> "ABC_1", date |-> NewDate(2025, 0, 14, 8, 0, 0, 0),
       actual_production |-> 100, ng_parts |-> 3, defect_occurrences |-> <<2, 0, 1>>],
      [batch_id |-> "B_15_01", component_name |-> "XYZ_2", date |-> NewDate(2025, 0, 15, 9, 0, 0, 0),
       actual_production |-> 50, ng_parts |-> 0, defect_occurrences |-> <<0, 4>>,
       ocr_defect_occurrences |-> <<1>>] }

ClassNames == {"Scratch", "Ink_Spot"}

DefectDoc(id, class) ==
    [defect_id |-> id, defect_class |-> class, description |-> "Defect number " \o ToString(id),
     is_acceptable |-> "false", defect_type |-> "object_detection"]

DefectIds == {1, 2, 3}
DefectDocs == {DefectDoc(id, class) : id \in DefectIds, class \in ClassNames}

\* the counts of an occurrence array
Counts == {-1, 0, 1, 2}

\* the catalogs of the handler model: none, one class per id, one class for two ids
HandlerCatalogs ==
    { <<>>,
      <<DefectDoc(1, "Scratch"), DefectDoc(2, "Ink_Spot")>>,
      <<DefectDoc(1, "Scratch"), DefectDoc(2, "Scratch")>> }

ComponentDocs ==
    { [component_id |-> "c1", component_decision |-> 1,
       timestamp |-> Some([enc |-> "number", text |-> "", number |-> 86400000]),
       images |-> <<[decision |-> 0, ocr_algorithm |-> "array"]>>],
      [component_id |-> "c2", component_decision |-> 7,
       timestamp |-> Some([enc |-> "string", text |-> "not a date", number |-> 0]),
       images |-> <<[decision |-> 5, ocr_algorithm |-> "absent"],
                    [decision |-> 1, ocr_algorithm |-> "object"]>>] }

\* the component collection the database holds; no collection is named ZZZ_9
ExistingComponent == "ABC_1"

\* the contents of the component collection: up to MaxComponents records, or
\* MaxPartition copies of one record
LongPartition ==
    [k \in 1..MaxPartition |->
        [component_id |-> "c1", component_decision |-> 1,
         timestamp |-> Some([enc |-> "number", text |-> "", number |-> 86400000]),
         images |-> <<[decision |-> 0, ocr_algorithm |-> "array"]>>]]
PartitionContents == SeqsUpTo(ComponentDocs, MaxComponents) \cup {LongPartition}

\* a Reports collection of MaxPartition records, one batch after the other
LongReports ==
    [k \in 1..MaxPartition |->
        [batch_id |-> "B_" \o ToString(k), component_name |-> "ABC_1",
         date |-> NewDate(2025, 0, 14, 8, 0, 0, 0), actual_production |-> 100 + k,
         ng_parts |-> 1 + (k % 3), defect_occurrences |-> <<k % 2, 1>>]]

Questions ==
    { "show batches with most ng parts",
      "most ng batches",
      "highest production today",
      "show reports from yesterday",
      "what data is available",
      "status of 'ABC_1'",
      "show *ABC_1*",
      "most ng parts of 'ABC_1'",
      "status of 'ZZZ_9'",
      "list all components",
      "Show Defect counts",
      "show ng reports",
      "what ng data is available" }

\* error.message of a failed store call and of a failed language-model call
StoreErrors == {"connection timed out", "ns not found"}
ModelErrors == {"API key not valid. Please pass a valid API key.", "fetch failed"}
ModelTexts == {"FINAL ANSWER: see the data above."}

Invocations == {1}

----------------------------------------------------------------------------
VARIABLES
    reports,            \* the Reports collection
    defects,            \* the Defects collection
    partitions,         \* the component collections, by name
    now,                \* the current instant (new Date())
    calls,              \* the invocations of the handler
    query,              \* the text given to a function applied on its own
    componentName,      \* result of extractComponentName
    conditions,         \* results of parseQuery
    defectOccurrences,  \* the occurrence array given to mapDefectOccurrences
    mappedDefects,      \* result of mapDefectOccurrences
    period,             \* the period given to getDateFilter
    filter,             \* result of getDateFilter
    intentFlags,        \* the intent flags (queryAnalysis) given to handleAggregationQuery
    pipeline,           \* the pipeline handleAggregationQuery ran, and its result
    component,          \* the record of a component collection given to the formatting
    formatted,          \* result of the formatting of queryComponentDetails
    lookups,            \* the failed lookups of queryComponentDetails and their messages
    olderConditions,    \* result of the date filtering of the older parseQuery
    server,             \* the server: productionAgent, initializationError, its requests
    client,             \* the React state of the chat client
    posts               \* the POST /api/query requests of the chat client

storeVars == <<reports, defects, partitions>>
webVars == <<server, client, posts>>
lateVars == <<lookups, olderConditions, webVars>>
extraVars == <<intentFlags, pipeline, component, formatted, lateVars>>
pureVars == <<query, componentName, conditions, defectOccurrences, mappedDefects, period, filter,
              extraVars>>
vars == <<reports, defects, partitions, now, calls, query, componentName, conditions,
          defectOccurrences, mappedDefects, period, filter, extraVars>>

\* index.js lines 21-23: productionAgent is declared without a value
ServerStart ==
    [productionAgent |-> "unset", startup |-> "initializing", initializationError |-> None,
     requests |-> <<>>]

\* App.js lines 8-12: the initial values of useState; submits is the list of the
\* submit events handled so far, each with what handleSubmit did
ClientStart ==
    [input |-> "", conversation |-> <<>>, loading |-> FALSE, error |-> "",
     streamingMessage |-> None, submits |-> <<>>]

WebIdle == server = ServerStart /\ client = ClientStart /\ posts = <<>>
LateIdle == lookups = <<>> /\ olderConditions = None /\ WebIdle
ExtraIdle ==
    /\ intentFlags = None /\ pipeline = None /\ component = None /\ formatted = None
    /\ LateIdle

\* a result that is not computed yet is None, a computed result v is Some(v)
PureIdle ==
    /\ query = "" /\ componentName = None /\ conditions = None
    /\ defectOccurrences = <<>> /\ mappedDefects = None
    /\ period = "" /\ filter = None /\ ExtraIdle

NoCall ==
    [pc |-> "idle", question |-> "", componentName |-> None, client |-> "none",
     closeCalls |-> 0, closeFailed |-> FALSE, reads |-> <<>>, defectMap |-> EmptyDefectMap,
     ret |-> "", modelCalls |-> 0, outcome |-> "pending", value |-> ""]

HandlerIdle ==
    /\ reports = <<>> /\ defects = <<>> /\ partitions = <<>>
    /\ calls = [i \in Invocations |-> NoCall]

----------------------------------------------------------------------------
(* Spec: the handler and queryMongoDB, one action per stretch of code      *)
(* between two awaits                                                      *)

Init ==
    /\ reports \in SeqsUpTo(ReportDocs, MaxReports) \cup {LongReports}
    /\ defects \in HandlerCatalogs
    /\ partitions \in [{ExistingComponent} -> PartitionContents]
    /\ now = RequestTime
    /\ calls = [i \in Invocations |-> NoCall]
    /\ PureIdle

\* lines 246-252: client is a variable of the call of queryMongoDB, and each call
\* makes its own MongoClient; ClientOf(i) names the client of invocation i
ClientOfShared(i) == 0
ClientOf(i) == i

\* invocation i becomes call; the state of a client is that of every invocation
\* that holds it
Update(i, call) ==
    calls' = [j \in DOMAIN calls |->
                 IF j = i THEN call
                 ELSE IF ClientOf(j) = ClientOf(i) /\ calls[j].client # "none"
                           /\ call.client # calls[i].client
                      THEN [calls[j] EXCEPT !.client = call.client]
                      ELSE calls[j]]

\* lines 55-78 as called at lines 128 and 266: the catalog is read from the Defects
\* collection at every call; loaded are the catalogs earlier calls have built
GetDefectInfoCached(loaded, docs) ==
    IF loaded # {} THEN CHOOSE defectMap \in loaded : TRUE ELSE DefectMapOf(docs)
getDefectInfo(loaded, docs) == DefectMapOf(docs)

\* the catalogs the invocations other than i hold after a read of Defects
LoadedBefore(i) ==
    {calls[j].defectMap : j \in {k \in DOMAIN calls \ {i} :
        \E r \in DOMAIN calls[k].reads : /\ calls[k].reads[r].collection = "Defects"
                                         /\ calls[k].reads[r].returned >= 0}}

\* the handler resolves or rejects
Settle(call, result) ==
    [call EXCEPT !.pc = "done", !.outcome = result.outcome, !.value = result.value]

\* lines 596-617 and 245-253: the handler up to the await of client.connect().
\* MONGODB_URI is set: initializeProductionAgent returns no handler without it.
Ask(i, question) ==
    /\ calls[i].pc = "idle"
    /\ LET name == extractComponentName(question)
           call == [calls[i] EXCEPT !.question = question, !.componentName = name]
       IN  IF hasComponentKeywords(question) /\ name = None
           THEN Update(i, Settle(call, [outcome |-> "resolved", value |-> HelpMessage]))
           ELSE Update(i, [call EXCEPT !.pc = "connect", !.client = "created"])
    /\ UNCHANGED <<storeVars, now, pureVars>>

\* line 253, then lines 256-263 up to the first read
ConnectOk(i) ==
    /\ calls[i].pc = "connect"
    /\ Update(i, [calls[i] EXCEPT !.client = "connected",
                     !.pc = IF extractComponentName(calls[i].question) # None
                            THEN "componentFind" ELSE "loadDefects"])
    /\ UNCHANGED <<storeVars, now, pureVars>>

\* line 253 raises: the catch of lines 341-343
ConnectFails(i, message) ==
    /\ calls[i].pc = "connect"
    /\ Update(i, [calls[i] EXCEPT !.ret = QueryErrorMessage(message), !.pc = "finally"])
    /\ UNCHANGED <<storeVars, now, pureVars>>

\* the log of the reads a call makes: the collection, the operation and its argument,
\* the state of the client at the read, and the number of records the store returned
\* (-1 when the read raised)
Read(call, collection, operation, argument, returned) ==
    Append(call.reads, [collection |-> collection, operation |-> operation,
                        argument |-> argument, client |-> call.client,
                        returned |-> returned])

\* lines 111-125: the read of the component collection
ComponentFindOk(i) ==
    /\ calls[i].pc = "componentFind"
    /\ LET name == extractComponentName(calls[i].question)[1]
           components == FindComponents(partitions, name)
           call == [calls[i] EXCEPT !.reads = Read(calls[i], name, "find", <<>>, Len(components))]
       IN  IF Len(components) = 0
           THEN Update(i, [call EXCEPT !.ret = EmptyCollectionMessage(name), !.pc = "finally"])
           ELSE Update(i, [call EXCEPT !.pc = "componentDefects"])
    /\ UNCHANGED <<storeVars, now, pureVars>>

\* line 121 raises: the catch of lines 230-241
ComponentFindFails(i, message) ==
    /\ calls[i].pc = "componentFind"
    /\ LET name == extractComponentName(calls[i].question)[1]
       IN  Update(i, [calls[i] EXCEPT !.reads = Read(calls[i], name, "find", <<>>, -1),
                         !.ret = ComponentErrorMessage(name, message), !.pc = "finally"])
    /\ UNCHANGED <<storeVars, now, pureVars>>

\* lines 128-229: getDefectInfo (it reads the catalog, or yields the empty catalog when
\* the read fails), then the formatting of the records
ComponentFormat(i, catalogRead) ==
    /\ calls[i].pc = "componentDefects"
    /\ LET name == extractComponentName(calls[i].question)[1]
           components == FindComponents(partitions, name)
           call == [calls[i] EXCEPT
                       !.reads = Read(calls[i], "Defects", "find", <<>>,
                                     IF catalogRead THEN Len(defects) ELSE -1),
                       !.defectMap = IF catalogRead THEN getDefectInfo(LoadedBefore(i), defects)
                                     ELSE EmptyDefectMap,
                       !.pc = "finally"]
       IN  IF FormatRaises(components)
           THEN Update(i, [call EXCEPT !.ret = ComponentErrorMessage(name, MapNotAFunction)])
           ELSE Update(i, [call EXCEPT !.ret =
                    Stringify([k \in DOMAIN components |->
                                   FormatComponent(components[k], Len(components))])])
    /\ UNCHANGED <<storeVars, now, pureVars>>

\* lines 262-269: getDefectInfo on the Reports path
LoadDefects(i, catalogRead) ==
    /\ calls[i].pc = "loadDefects"
    /\ Update(i, [calls[i] EXCEPT
                     !.reads = Read(calls[i], "Defects", "find", <<>>,
                                     IF catalogRead THEN Len(defects) ELSE -1),
                     !.defectMap = IF catalogRead THEN getDefectInfo(LoadedBefore(i), defects)
                                   ELSE EmptyDefectMap,
                     !.pc = "query"])
    /\ UNCHANGED <<storeVars, now, pureVars>>

\* the NG pipeline for every NG question
ReportsReadNgPipeline(question, time) ==
    LET queryAnalysis == analyzeQuery(question)
    IN  IF queryAnalysis.needsAggregation \/ queryAnalysis.isComponentList
           \/ queryAnalysis.isNGQuery
        THEN [operation |-> "aggregate", argument |-> AggregationPipeline(queryAnalysis)]
        ELSE [operation |-> "find", argument |-> parseQuery(question, time)]
\* lines 269-284: the read of the Reports collection the question asks for
ReportsRead(question, time) ==
    LET queryAnalysis == analyzeQuery(question)
    IN  IF queryAnalysis.needsAggregation \/ queryAnalysis.isComponentList
        THEN [operation |-> "aggregate", argument |-> AggregationPipeline(queryAnalysis)]
        ELSE [operation |-> "find", argument |-> parseQuery(question, time)]

\* lines 269-340
QueryOk(i) ==
    /\ calls[i].pc = "query"
    /\ LET read == ReportsRead(calls[i].question, now)
           results == IF read.operation = "aggregate"
                      THEN Aggregate(reports, read.argument)
                      ELSE FindReports(reports, read.argument)
       IN  Update(i, [calls[i] EXCEPT
                         !.reads = Read(calls[i], "Reports", read.operation, read.argument,
                                        Len(results)),
                         !.ret = ReportsResult(results, calls[i].defectMap),
                         !.pc = "finally"])
    /\ UNCHANGED <<storeVars, now, pureVars>>

\* line 283 or 511 raises: the catch of lines 341-343
QueryFails(i, message) ==
    /\ calls[i].pc = "query"
    /\ LET read == ReportsRead(calls[i].question, now)
       IN  Update(i, [calls[i] EXCEPT
                         !.reads = Read(calls[i], "Reports", read.operation, read.argument, -1),
                         !.ret = QueryErrorMessage(message),
                         !.pc = "finally"])
    /\ UNCHANGED <<storeVars, now, pureVars>>

\* lines 344-348: close() of the client, when the finally closes one, returns; then
\* queryMongoDB returns
CloseOk(i) ==
    /\ calls[i].pc = "finally"
    /\ IF FinallyCloses(calls[i].client)
       THEN Update(i, [calls[i] EXCEPT !.client = "closed", !.closeCalls = @ + 1,
                                       !.pc = "generate"])
       ELSE Update(i, [calls[i] EXCEPT !.pc = "generate"])
    /\ UNCHANGED <<storeVars, now, pureVars>>

\* close() raises: queryMongoDB rejects, and the handler's catch (lines 700-711) answers
CloseFails(i, message) ==
    /\ calls[i].pc = "finally"
    /\ FinallyCloses(calls[i].client)
    /\ Update(i, Settle([calls[i] EXCEPT !.closeCalls = @ + 1, !.closeFailed = TRUE],
                        HandlerCatch(message)))
    /\ UNCHANGED <<storeVars, now, pureVars>>

\* lines 617-699: the prompt and the answer of the language model
GenerateOk(i, text) ==
    /\ calls[i].pc = "generate"
    /\ Update(i, Settle([calls[i] EXCEPT !.modelCalls = @ + 1],
                        [outcome |-> "resolved", value |-> text]))
    /\ UNCHANGED <<storeVars, now, pureVars>>

\* line 695, 696 or 697 raises: the handler's catch
GenerateFails(i, message) ==
    /\ calls[i].pc = "generate"
    /\ Update(i, Settle([calls[i] EXCEPT !.modelCalls = @ + 1], HandlerCatch(message)))
    /\ UNCHANGED <<storeVars, now, pureVars>>

\* a step of invocation i, asked one of the questions, with the messages of the
\* errors the store and the language model raise
Step(i, questions, storeErrors, modelErrors) ==
    \/ \E question \in questions : Ask(i, question)
    \/ ConnectOk(i)
    \/ \E message \in storeErrors : ConnectFails(i, message)
    \/ ComponentFindOk(i)
    \/ \E message \in storeErrors : ComponentFindFails(i, message)
    \/ \E catalogRead \in BOOLEAN : ComponentFormat(i, catalogRead)
    \/ \E catalogRead \in BOOLEAN : LoadDefects(i, catalogRead)
    \/ QueryOk(i)
    \/ \E message \in storeErrors : QueryFails(i, message)
    \/ CloseOk(i)
    \/ \E message \in storeErrors : CloseFails(i, message)
    \/ \E text \in ModelTexts : GenerateOk(i, text)
    \/ \E message \in modelErrors : GenerateFails(i, message)

Next == \E i \in Invocations : Step(i, Questions, StoreErrors, ModelErrors)

Spec == Init /\ [][Next]_vars

----------------------------------------------------------------------------
(* SpecTwo: two invocations of the handler whose steps interleave, on one  *)
(* database; the Defects collection is rewritten by its owner while no     *)
(* invocation is under way                                                 *)

TwoInvocations == {1, 2}

TwoQuestions == {"most ng batches", "status of 'ABC_1'"}

InitTwo ==
    /\ reports = <<CHOOSE doc \in ReportDocs : doc.ng_parts > 0,
                   CHOOSE doc \in ReportDocs : doc.ng_parts = 0>>
    /\ defects \in HandlerCatalogs
    /\ partitions = [name \in {ExistingComponent} |->
                        <<CHOOSE doc \in ComponentDocs : doc.component_id = "c1">>]
    /\ now = RequestTime
    /\ calls = [i \in TwoInvocations |-> NoCall]
    /\ PureIdle

\* the Defects collection gets other contents
CatalogChanges(docs) ==
    /\ \A i \in TwoInvocations : calls[i].pc \in {"idle", "done"}
    /\ docs # defects
    /\ defects' = docs
    /\ UNCHANGED <<reports, partitions, now, calls, pureVars>>

NextTwo ==
    \/ \E i \in TwoInvocations : Step(i, TwoQuestions, {"connection timed out"}, {"fetch failed"})
    \/ \E docs \in HandlerCatalogs : CatalogChanges(docs)

SpecTwo == InitTwo /\ [][NextTwo]_vars

----------------------------------------------------------------------------
(* SpecMap: mapDefectOccurrences applied to an occurrence array under a    *)
(* catalog read from the Defects collection                                *)

InitMap ==
    /\ defects \in SeqsUpTo(DefectDocs, MaxDefects)
    /\ defectOccurrences \in SeqsUpTo(Counts, MaxOccurrences)
    /\ mappedDefects = None
    /\ reports = <<>> /\ partitions = <<>> /\ now = RequestTime
    /\ calls = [i \in Invocations |-> NoCall]
    /\ query = "" /\ componentName = None /\ conditions = None /\ period = "" /\ filter = None /\ ExtraIdle

MapDefects(defectType) ==
    /\ mappedDefects = None
    /\ mappedDefects' = Some(mapDefectOccurrences(defectOccurrences, DefectMapOf(defects), defectType))
    /\ UNCHANGED <<extraVars, storeVars, now, calls, query, componentName, conditions, defectOccurrences,
                   period, filter>>

NextMap == \E defectType \in Range(OccurrenceFields) : MapDefects(defectType)

SpecMap == InitMap /\ [][NextMap]_vars

----------------------------------------------------------------------------
(* SpecExtract: extractComponentName applied to every text over the        *)
(* delimiters and two letters, up to MaxQueryLen characters                *)

ExtractAlphabet == {"'", "\"", "*", "a", "b"}

RECURSIVE TextsUpTo(_)
TextsUpTo(n) ==
    IF n = 0 THEN {""}
    ELSE LET shorter == TextsUpTo(n - 1)
         IN  shorter \cup {t \o c : t \in shorter, c \in ExtractAlphabet}

InitExtract ==
    /\ query \in TextsUpTo(MaxQueryLen) \cup {"inspect 'ABC_1'"}
    /\ componentName = None
    /\ HandlerIdle /\ now = RequestTime
    /\ conditions = None /\ defectOccurrences = <<>> /\ mappedDefects = None
    /\ period = "" /\ filter = None /\ ExtraIdle

ExtractName ==
    /\ componentName = None
    /\ componentName' = Some(extractComponentName(query))
    /\ UNCHANGED <<extraVars, storeVars, now, calls, query, conditions, defectOccurrences, mappedDefects,
                   period, filter>>

NextExtract == ExtractName

SpecExtract == InitExtract /\ [][NextExtract]_vars

----------------------------------------------------------------------------
(* SpecParse: parseQuery applied to questions that name a relative period, *)
(* an absolute date, or both in either order                               *)

AbsoluteDates == {"02_24_2025", "01/14/2025", "01-15-2025", "24_02_2025"}
PeriodWords == Periods \cup {"Today", "Last Month"}
Openings == {"reports ", "parts of batch A_1 ", "quality of production 5 ",
             "what data has lot B-2 ", "efficiency of batch A_1 "}

ParseQuestions ==
    UNION { { o \o p, o \o d, o \o p \o " and " \o d, o \o d \o " and " \o p } :
            o \in Openings, p \in PeriodWords, d \in AbsoluteDates }

\* the first days of MaxYear, at the start, in the middle and at the end of the day
ParseInstants ==
    { NewDate(MaxYear, 0, day, 0, 0, 0, 0) : day \in {1, 15} }
        \cup { NewDate(MaxYear, 0, 15, 12, 0, 0, 0), NewDate(MaxYear, 0, 14, 23, 59, 59, 999) }

InitParse ==
    /\ query \in ParseQuestions
    /\ now \in ParseInstants
    /\ conditions = None
    /\ HandlerIdle
    /\ componentName = None /\ defectOccurrences = <<>> /\ mappedDefects = None
    /\ period = "" /\ filter = None /\ ExtraIdle

\* built is the conditions object as parseQuery has it before its last test, returned
\* is the value of parseQuery
ParseQuery ==
    /\ conditions = None
    /\ conditions' = Some([built |-> BuiltConditions(query, now), returned |-> parseQuery(query, now)])
    /\ UNCHANGED <<extraVars, storeVars, now, calls, query, componentName, defectOccurrences, mappedDefects,
                   period, filter>>

NextParse == ParseQuery

SpecParse == InitParse /\ [][NextParse]_vars

----------------------------------------------------------------------------
(* SpecDate: getDateFilter at every day of NumYears years ending with      *)
(* MaxYear, at the start, in the middle and at the end of the day          *)

DateInstants ==
    { <<day, ms>> : day \in MakeDay(MaxYear - NumYears + 1, 0, 1)..MakeDay(MaxYear, 11, 31),
                    ms \in {0, MakeTime(12, 30, 15, 500), MsPerDay - 1} }

InitDate ==
    /\ now \in DateInstants
    /\ period = "" /\ filter = None /\ ExtraIdle
    /\ HandlerIdle
    /\ query = "" /\ componentName = None /\ conditions = None
    /\ defectOccurrences = <<>> /\ mappedDefects = None

GetDateFilter(p) ==
    /\ filter = None
    /\ period' = p
    /\ filter' = Some(getDateFilter(p, now))
    /\ UNCHANGED <<extraVars, storeVars, now, calls, query, componentName, conditions, defectOccurrences,
                   mappedDefects>>

NextDate == \E p \in Periods : GetDateFilter(p)

SpecDate == InitDate /\ [][NextDate]_vars

----------------------------------------------------------------------------
(* SpecPipeline: handleAggregationQuery under every combination of the     *)
(* intent flags, on every Reports collection of the model                  *)

IntentFlags ==
    [isBatchQuery : BOOLEAN, isNGQuery : BOOLEAN, needsAggregation : BOOLEAN,
     isComparative : BOOLEAN, isComponentList : BOOLEAN, isGeneralQuery : BOOLEAN]

InitPipeline ==
    /\ intentFlags \in {Some(f) : f \in IntentFlags}
    /\ reports \in SeqsUpTo(ReportDocs, MaxReports)
    /\ defects = <<>> /\ partitions = <<>> /\ now = RequestTime
    /\ calls = [i \in Invocations |-> NoCall]
    /\ query = "" /\ componentName = None /\ conditions = None
    /\ defectOccurrences = <<>> /\ mappedDefects = None
    /\ period = "" /\ filter = None
    /\ pipeline = None /\ component = None /\ formatted = None /\ LateIdle

\* lines 480-512
HandleAggregationQuery ==
    /\ pipeline = None
    /\ pipeline' = Some([pipeline |-> AggregationPipeline(intentFlags[1]),
                         results  |-> Aggregate(reports, AggregationPipeline(intentFlags[1]))])
    /\ UNCHANGED <<storeVars, now, calls, query, componentName, conditions, defectOccurrences,
                   mappedDefects, period, filter, intentFlags, component, formatted, lateVars>>

NextPipeline == HandleAggregationQuery

SpecPipeline == InitPipeline /\ [][NextPipeline]_vars

----------------------------------------------------------------------------
(* SpecFormat: the formatting of queryComponentDetails applied to one      *)
(* record, with every decision code around the tables and every encoding   *)
(* of the timestamp                                                        *)

DecisionCodes == {-1, 0, 1, 2, 3, 4, 5, 6}
ImageDecisionCodes == {-1, 0, 1, 2, 3, 4}

TimestampValues ==
    { None }
        \cup { Some([enc |-> "numberLong", text |-> v, number |-> 0]) :
                   v \in {"0", "86400000", "1000", "abc"} }
        \cup { Some([enc |-> "date", text |-> v, number |-> 0]) :
                   v \in {"1970-01-02T00:00:00.000Z", "2025-01-15T10:30:00.250Z", "not a date"} }
        \cup { Some([enc |-> "number", text |-> "", number |-> v]) : v \in {0, 1000, 86400000} }
        \cup { Some([enc |-> "string", text |-> v, number |-> 0]) :
                   v \in {"1970-01-02T00:00:00.000Z", "2025-13-45T10:30:00.250Z", "not a date"} }

FormatImages ==
    { <<>> } \cup { <<[decision |-> d, ocr_algorithm |-> a]>> :
                        d \in ImageDecisionCodes, a \in {"absent", "array", "object"} }

InitFormat ==
    /\ component \in { Some([component_id |-> "c1", component_decision |-> code,
                              timestamp |-> ts, images |-> images]) :
                             code \in DecisionCodes, ts \in TimestampValues, images \in FormatImages }
    /\ formatted = None /\ intentFlags = None /\ pipeline = None /\ LateIdle
    /\ HandlerIdle /\ now = RequestTime
    /\ query = "" /\ componentName = None /\ conditions = None
    /\ defectOccurrences = <<>> /\ mappedDefects = None
    /\ period = "" /\ filter = None

\* lines 131-229 for one record, and the catch of lines 230-241 when the formatting
\* raises
FormatRecord ==
    /\ formatted = None
    /\ formatted' = Some(IF FormatRaises(<<component[1]>>)
                         THEN [raised |-> TRUE,
                               returned |-> ComponentErrorMessage("ABC_1", MapNotAFunction)]
                         ELSE [raised |-> FALSE,
                               record |-> FormatComponent(component[1], 1),
                               returned |-> Stringify(<<FormatComponent(component[1], 1)>>)])
    /\ UNCHANGED <<storeVars, now, calls, query, componentName, conditions, defectOccurrences,
                   mappedDefects, period, filter, intentFlags, pipeline, component, lateVars>>

NextFormat == FormatRecord

SpecFormat == InitFormat /\ [][NextFormat]_vars

----------------------------------------------------------------------------
(* SpecLookup: lookups of queryComponentDetails that fail, with the        *)
(* messages of the errors the store raises                                 *)

LookupNames == {"ABC_1", "ZZZ_9", "a$b"}
LookupErrors ==
    {"ns not found", "Collection ZZZ_9 does not exist", "collection name must be a string",
     "connection timed out", "topology was destroyed"}

InitLookup ==
    /\ lookups = <<>> /\ olderConditions = None /\ WebIdle
    /\ HandlerIdle /\ now = RequestTime
    /\ query = "" /\ componentName = None /\ conditions = None
    /\ defectOccurrences = <<>> /\ mappedDefects = None
    /\ period = "" /\ filter = None
    /\ intentFlags = None /\ pipeline = None /\ component = None /\ formatted = None

\* lines 114-121 raise error, and the catch of lines 230-241 returns
LookupFails(name, message) ==
    /\ Len(lookups) < MaxLookups
    /\ lookups' = Append(lookups, [componentName |-> name, message |-> message,
                                   ret |-> ComponentErrorMessage(name, message)])
    /\ UNCHANGED <<storeVars, now, calls, query, componentName, conditions, defectOccurrences,
                   mappedDefects, period, filter, intentFlags, pipeline, component, formatted,
                   olderConditions, webVars>>

NextLookup == \E name \in LookupNames, message \in LookupErrors : LookupFails(name, message)

SpecLookup == InitLookup /\ [][NextLookup]_vars

----------------------------------------------------------------------------
(* SpecOlder: the date filtering of the older parseQuery applied to the    *)
(* questions of SpecParse                                                  *)

InitOlder ==
    /\ query \in ParseQuestions
    /\ now \in ParseInstants
    /\ olderConditions = None /\ lookups = <<>> /\ WebIdle
    /\ HandlerIdle
    /\ componentName = None /\ conditions = None /\ defectOccurrences = <<>>
    /\ mappedDefects = None /\ period = "" /\ filter = None
    /\ intentFlags = None /\ pipeline = None /\ component = None /\ formatted = None

OlderParseQuery ==
    /\ olderConditions = None
    /\ olderConditions' = Some([date |-> OlderDateCondition(query, now)])
    /\ UNCHANGED <<storeVars, now, calls, query, componentName, conditions, defectOccurrences,
                   mappedDefects, period, filter, intentFlags, pipeline, component, formatted,
                   lookups, webVars>>

NextOlder == OlderParseQuery

SpecOlder == InitOlder /\ [][NextOlder]_vars

----------------------------------------------------------------------------
(* SpecServer: the startup callback of app.listen and POST /api/query      *)
(* (server/index.js)                                                       *)

\* the value of req.body.question: absent, a text, or a number
NoQuestion == [kind |-> "missing", text |-> "", number |-> 0]
TextQuestion(t) == [kind |-> "text", text |-> t, number |-> 0]
NumberQuestion(n) == [kind |-> "number", text |-> "", number |-> n]

PostedQuestions ==
    {NoQuestion, NumberQuestion(0), NumberQuestion(5)}
        \cup {TextQuestion(t) : t \in {"", "  ", "show reports", " hi "}}

InitializationErrors == {"MongoDB connection failed", "Gemini API test failed"}

FallbackAnswer ==
    "The AI agent is experiencing technical difficulties. Please try again later or contact support."
AgentAnswers == {"FINAL ANSWER: 3 reports"}

\* String.prototype.trim
RECURSIVE trim(_)
trim(s) ==
    IF Len(s) = 0 THEN ""
    ELSE IF IsSpace(CharAt(s, 1)) THEN trim(SubSeq(s, 2, Len(s)))
    ELSE IF IsSpace(CharAt(s, Len(s))) THEN trim(SubSeq(s, 1, Len(s) - 1))
    ELSE s

\* !question : undefined, the empty text and 0 are falsy
IsFalsy(question) ==
    \/ question.kind = "missing"
    \/ question.kind = "text" /\ question.text = ""
    \/ question.kind = "number" /\ question.number = 0

\* the status POST /api/query answers before any await, or 0 when it goes on to
\* call the agent; question.trim is not a function of a number, and the
\* TypeError is caught at line 73
PostStatus(productionAgent, question) ==
    IF productionAgent = "unset" THEN 503
    ELSE IF IsFalsy(question) THEN 400
    ELSE IF question.kind # "text" THEN 500
    ELSE IF Len(trim(question.text)) = 0 THEN 400
    ELSE 0

PostError(status) ==
    CASE status = 503 -> "Agent is still initializing. Please try again shortly."
      [] status = 400 -> "Question is required"
      [] status = 500 -> "Failed to process query"
      [] OTHER -> ""

InitServer ==
    /\ server = ServerStart /\ client = ClientStart /\ posts = <<>>
    /\ lookups = <<>> /\ olderConditions = None
    /\ HandlerIdle /\ now = RequestTime
    /\ query = "" /\ componentName = None /\ conditions = None
    /\ defectOccurrences = <<>> /\ mappedDefects = None
    /\ period = "" /\ filter = None
    /\ intentFlags = None /\ pipeline = None /\ component = None /\ formatted = None

ServerUnchanged ==
    UNCHANGED <<storeVars, now, calls, query, componentName, conditions, defectOccurrences,
                mappedDefects, period, filter, intentFlags, pipeline, component, formatted,
                lookups, olderConditions, client, posts>>

\* lines 40-42: initializeProductionAgent resolved
InitializationSucceeds ==
    /\ server.startup = "initializing"
    /\ server' = [server EXCEPT !.productionAgent = "real", !.startup = "finished"]
    /\ ServerUnchanged

\* lines 43-51: initializeProductionAgent rejected with a message
InitializationFails(message) ==
    /\ server.startup = "initializing"
    /\ server' = [server EXCEPT !.initializationError = Some(message),
                                !.productionAgent = "fallback",
                                !.startup = "finished"]
    /\ ServerUnchanged

\* lines 55-70: the handler up to its answer or up to the call of the agent
Post(question) ==
    /\ Len(server.requests) < MaxRequests
    /\ LET status == PostStatus(server.productionAgent, question)
       IN server' = [server EXCEPT !.requests = Append(@,
              [question |-> question,
               agentAtArrival |-> server.productionAgent,
               pc |-> IF status = 0 THEN "agent" ELSE "done",
               status |-> status,
               agentCalls |-> IF status = 0 THEN 1 ELSE 0,
               called |-> IF status = 0 THEN server.productionAgent ELSE "none",
               body |-> PostError(status)])]
    /\ ServerUnchanged

\* lines 70-72: the agent resolved, res.json({ response }) answers 200
AgentReturns(k, answer) ==
    /\ k \in DOMAIN server.requests
    /\ server.requests[k].pc = "agent"
    /\ server' = [server EXCEPT !.requests[k] =
              [@ EXCEPT !.pc = "done", !.status = 200,
                        !.body = IF server.requests[k].called = "fallback"
                                  THEN FallbackAnswer ELSE answer]]
    /\ ServerUnchanged

NextServer ==
    \/ InitializationSucceeds
    \/ \E message \in InitializationErrors : InitializationFails(message)
    \/ \E question \in PostedQuestions : Post(question)
    \/ \E k \in 1..MaxRequests, answer \in AgentAnswers : AgentReturns(k, answer)

SpecServer == InitServer /\ [][NextServer]_vars

----------------------------------------------------------------------------
(* SpecClient: the chat client (client/src/App.js): typing into the input, *)
(* handleSubmit, the arrival of the answer of POST /api/query, the timer   *)
(* of the typing effect and clearConversation                              *)

TypedTexts == {"", " ", "q1", "q2"}
ResponseTexts == {"", "ok", "no"}

ErrorBanner == "Failed to get response from AI agent. Please try again."
ErrorContent == "Sorry, I encountered an error processing your request. Please try again."

UserMessage(content) == [role |-> "user", content |-> content]
AssistantMessage(content) == [role |-> "assistant", content |-> content]

SubmitIgnoredWhenBlank(input, loading) == Len(trim(input)) = 0

\* line 46: !input.trim() || loading
SubmitIgnored(input, loading) == Len(trim(input)) = 0 \/ loading

\* lines 24-41: the effect that runs after streamingMessage changed: a message
\* whose content is complete is appended to the conversation and removed
AfterTypingEffect(c) ==
    IF c.streamingMessage # None
       /\ Len(c.streamingMessage[1].content) = Len(c.streamingMessage[1].fullContent)
    THEN [c EXCEPT !.conversation = Append(@, AssistantMessage(c.streamingMessage[1].fullContent)),
                   !.streamingMessage = None]
    ELSE c

InitClient ==
    /\ client = ClientStart /\ posts = <<>> /\ server = ServerStart
    /\ lookups = <<>> /\ olderConditions = None
    /\ HandlerIdle /\ now = RequestTime
    /\ query = "" /\ componentName = None /\ conditions = None
    /\ defectOccurrences = <<>> /\ mappedDefects = None
    /\ period = "" /\ filter = None
    /\ intentFlags = None /\ pipeline = None /\ component = None /\ formatted = None

ClientUnchanged ==
    UNCHANGED <<storeVars, now, calls, query, componentName, conditions, defectOccurrences,
                mappedDefects, period, filter, intentFlags, pipeline, component, formatted,
                lookups, olderConditions, server>>

\* lines 205-211: onChange of the input, which is disabled while loading
Type(text) ==
    /\ ~client.loading
    /\ text # client.input
    /\ client' = [client EXCEPT !.input = text]
    /\ UNCHANGED posts
    /\ ClientUnchanged

\* lines 44-58: handleSubmit up to the await of axios.post
Submit ==
    /\ Len(client.submits) < MaxSubmits
    /\ IF SubmitIgnored(client.input, client.loading)
       THEN /\ client' = [client EXCEPT !.submits =
                              Append(@, IF Len(trim(client.input)) = 0 THEN "blank" ELSE "loading")]
            /\ UNCHANGED posts
       ELSE /\ Len(posts) < MaxSends
            /\ client' = [client EXCEPT !.submits = Append(@, "sent"),
                                        !.loading = TRUE,
                                        !.error = "",
                                        !.conversation = Append(@, UserMessage(client.input))]
            /\ posts' = Append(posts, [question |-> client.input,
                                       userIndex |-> Len(client.conversation) + 1,
                                       state |-> "inflight",
                                       response |-> ""])
    /\ ClientUnchanged

\* lines 60-65 and 77-80: the answer arrived, then the finally block, then the effect
ResponseArrives(k, text) ==
    /\ k \in DOMAIN posts
    /\ posts[k].state = "inflight"
    /\ posts' = [posts EXCEPT ![k] = [@ EXCEPT !.state = "responded", !.response = text]]
    /\ client' = AfterTypingEffect(
                     [client EXCEPT !.streamingMessage = Some([content |-> "", fullContent |-> text]),
                                    !.loading = FALSE,
                                    !.input = ""])
    /\ ClientUnchanged

\* lines 67-80: axios.post rejected (no answer, or a status that is not 2xx)
RequestFails(k) ==
    /\ k \in DOMAIN posts
    /\ posts[k].state = "inflight"
    /\ posts' = [posts EXCEPT ![k] = [@ EXCEPT !.state = "failed"]]
    /\ client' = [client EXCEPT !.error = ErrorBanner,
                                !.conversation = Append(@, AssistantMessage(ErrorContent)),
                                !.loading = FALSE,
                                !.input = ""]
    /\ ClientUnchanged

\* lines 25-31: the timer of 10 ms adds one character, then the effect runs again
Tick ==
    /\ client.streamingMessage # None
    /\ LET m == client.streamingMessage[1]
       IN /\ Len(m.content) < Len(m.fullContent)
          /\ client' = AfterTypingEffect(
                 [client EXCEPT !.streamingMessage =
                      Some([m EXCEPT !.content = SubSeq(m.fullContent, 1, Len(m.content) + 1)])])
    /\ UNCHANGED posts
    /\ ClientUnchanged

\* lines 83-87: clearConversation; its button is rendered when there is something to clear
Clear ==
    /\ client.conversation # <<>> \/ client.streamingMessage # None
    /\ client' = [client EXCEPT !.conversation = <<>>, !.streamingMessage = None, !.error = ""]
    /\ UNCHANGED posts
    /\ ClientUnchanged

NextTyping ==
    \/ \E text \in TypedTexts : Type(text)
    \/ Submit
    \/ \E k \in 1..MaxSends, text \in ResponseTexts : ResponseArrives(k, text)
    \/ \E k \in 1..MaxSends : RequestFails(k)
    \/ Tick

NextClient == NextTyping \/ Clear

SpecClient == InitClient /\ [][NextClient]_vars

\* the client while clearConversation is not invoked; the timer of the typing
\* effect fires as long as a message is being typed
SpecClientLive == InitClient /\ [][NextTyping]_vars /\ WF_vars(Tick)

----------------------------------------------------------------------------
(* The claims                                                              *)

\* queryMongoDB of call i has returned a value (it has not rejected)
Returned(i) == calls[i].pc = "generate" \/ (calls[i].pc = "done" /\ calls[i].modelCalls > 0)

\* C1: the handler never rejects, and every invocation that has ended resolved to
\* a text: the help message, the answer of the language model, or one of the two
\* messages of the handler's catch; also after a failed connect, catalog read, query,
\* close or language-model call.
C1_HandlerResolvesToText ==
    \A i \in Invocations :
        /\ calls[i].outcome # "rejected"
        /\ calls[i].pc = "done" =>
              /\ calls[i].outcome = "resolved"
              /\ calls[i].value \in {HelpMessage, InvalidKeyMessage, SorryMessage} \cup ModelTexts

\* an invocation whose close() raised has ended with the fallback message
C1_Witness ==
    \E i \in Invocations :
        calls[i].pc = "done" /\ calls[i].closeFailed /\ calls[i].value = SorryMessage

\* C2: once queryMongoDB has returned or rejected, close() was called once on the
\* client it created, and the client is closed unless close() itself raised; every
\* read of the store was made on the connected client, before the close.
C2_ClientClosedOnEveryPath ==
    \A i \in Invocations :
        /\ (calls[i].pc \in {"generate", "done"} /\ calls[i].client # "none") =>
              /\ calls[i].closeCalls = 1
              /\ ~calls[i].closeFailed => calls[i].client = "closed"
        /\ calls[i].pc \notin {"generate", "done"} => calls[i].closeCalls = 0
        /\ \A k \in DOMAIN calls[i].reads : calls[i].reads[k].client = "connected"

\* connect() raised, no read was made, and queryMongoDB returned with the client closed
C2_Witness ==
    \E i \in Invocations :
        /\ calls[i].pc = "generate" /\ calls[i].reads = <<>>
        /\ calls[i].ret = QueryErrorMessage("connection timed out")
        /\ calls[i].client = "closed" /\ calls[i].closeCalls = 1

\* the catalog the Defects collection holds: the last document of each defect id
CatalogIds == {defects[k].defect_id : k \in DOMAIN defects}
CatalogDoc(id) == defects[SetMax({k \in DOMAIN defects : defects[k].defect_id = id})]

\* C3: every entry of the result of mapDefectOccurrences carries a positive count, and
\* it is the count of an array index i (0-based) under the label and the description
\* of defect id i + 1: those of the catalog, or the Unknown_Defect ones when the
\* catalog has no such id.  (Position k of the sequence is index k - 1, defect id k.)
C3_EntriesArePositiveCountsOfIdIndexPlusOne ==
    mappedDefects # None =>
        \A label \in DOMAIN mappedDefects[1] :
            LET entry == mappedDefects[1][label]
            IN  /\ entry.count > 0
                /\ \E k \in DOMAIN defectOccurrences :
                      /\ defectOccurrences[k] = entry.count
                      /\ IF k \in CatalogIds
                         THEN /\ label = CatalogDoc(k).defect_class
                              /\ entry.description = CatalogDoc(k).description
                         ELSE /\ label = "Unknown_Defect_" \o ToString(k)
                              /\ entry.description = "Unknown defect with ID " \o ToString(k)

\* the array [0, 2, 1] under a catalog that knows id 2 only: two entries, none for index 0
C3_Witness ==
    /\ mappedDefects # None
    /\ defectOccurrences = <<0, 2, 1>>
    /\ CatalogIds = {2}
    /\ DOMAIN mappedDefects[1] = {CatalogDoc(2).defect_class, "Unknown_Defect_3"}
    /\ mappedDefects[1]["Unknown_Defect_3"].count = 1

\* C4: the result of mapDefectOccurrences holds one entry per index whose count is
\* positive, and an index whose id the catalog lacks appears as Unknown_Defect_{id}.
C4_OneEntryPerPositiveCount ==
    mappedDefects # None =>
        LET positive == {k \in DOMAIN defectOccurrences : defectOccurrences[k] > 0}
        IN  /\ Cardinality(DOMAIN mappedDefects[1]) = Cardinality(positive)
            /\ \A k \in positive \ CatalogIds :
                  ("Unknown_Defect_" \o ToString(k)) \in DOMAIN mappedDefects[1]

\* C5 as claimed: whenever a read of the Reports collection or of a component
\* collection returned zero records, queryMongoDB returns the text
\* "No production reports found matching your query."
C5_SentinelOnEveryPath ==
    \A i \in Invocations :
        Returned(i) =>
            \A k \in DOMAIN calls[i].reads :
                (calls[i].reads[k].collection # "Defects" /\ calls[i].reads[k].returned = 0)
                    => calls[i].ret = NoReportsMessage

\* C5, amended: zero records from the find or the aggregation on Reports give the text
\* "No production reports found matching your query."; zero records from a component
\* collection give "No data found in collection '{name}'. The collection exists but
\* is empty."
C5_SentinelOnReportsPaths ==
    \A i \in Invocations :
        Returned(i) =>
            \A k \in DOMAIN calls[i].reads :
                LET read == calls[i].reads[k]
                IN  (read.collection # "Defects" /\ read.returned = 0) =>
                        calls[i].ret = IF read.collection = "Reports"
                                       THEN NoReportsMessage
                                       ELSE EmptyCollectionMessage(read.collection)

\* an aggregation on Reports that returned no record, answered with the sentinel
C5_Witness ==
    \E i \in Invocations :
        /\ Returned(i) /\ Len(calls[i].reads) = 2
        /\ calls[i].reads[2].collection = "Reports"
        /\ calls[i].reads[2].operation = "aggregate"
        /\ calls[i].reads[2].returned = 0
        /\ calls[i].ret = NoReportsMessage

MostNgPartsQuestion == "show batches with most ng parts"

\* C6: an invocation for the question "show batches with most ng parts" that has
\* ended has run, on the Reports collection, the pipeline [match ng_parts exists
\* and > 0, sort ng_parts descending, limit 10].
C6_MostNgPartsRunsNgPipeline ==
    \A i \in Invocations :
        (calls[i].pc = "done" /\ calls[i].question = MostNgPartsQuestion) =>
            \E k \in DOMAIN calls[i].reads :
                /\ calls[i].reads[k].collection = "Reports"
                /\ calls[i].reads[k].operation = "aggregate"
                /\ calls[i].reads[k].argument = NGPipeline

\* the delimited texts of kind d in q: <<i, j>> are the positions of an opening and
\* of the next closing delimiter with at least one character between them
Delimited(q, d) ==
    {ij \in (1..Len(q)) \X (1..Len(q)) :
        /\ ij[2] > ij[1] + 1
        /\ CharAt(q, ij[1]) = d /\ CharAt(q, ij[2]) = d
        /\ \A k \in (ij[1] + 1)..(ij[2] - 1) : CharAt(q, k) # d}

FirstDelimited(q, d) ==
    LET first == CHOOSE ij \in Delimited(q, d) : \A o \in Delimited(q, d) : ij[1] <= o[1]
    IN  SubSeq(q, first[1] + 1, first[2] - 1)

\* C7: extractComponentName yields the first single-quoted text when there is one,
\* otherwise the first double-quoted text, otherwise the first asterisk-delimited
\* text, otherwise null, wherever the texts stand in the question.
C7_QuotePrecedence ==
    componentName # None =>
        componentName[1] =
            IF Delimited(query, "'") # {} THEN Some(FirstDelimited(query, "'"))
            ELSE IF Delimited(query, "\"") # {} THEN Some(FirstDelimited(query, "\""))
            ELSE IF Delimited(query, "*") # {} THEN Some(FirstDelimited(query, "*"))
            ELSE None

\* an asterisk-delimited name before a quoted one: the quoted one is returned
C7_Witness == query = "*a*'b'" /\ componentName = Some(Some("b"))

\* C8: for a question that holds a relative period keyword and an absolute digit
\* date, in either order, the date condition parseQuery builds is the interval of
\* the keyword, and the predicate it returns carries that interval unless it is the
\* unconstrained predicate.
C8_RelativeKeywordWins ==
    (/\ conditions # None
     /\ \E p \in Periods : Includes(toLowerCase(query), p)
     /\ \E d \in AbsoluteDates : Includes(query, d)) =>
        \E p \in Periods :
            /\ Includes(toLowerCase(query), p)
            /\ conditions[1].built.date = Some(getDateFilter(p, now))
            /\ \/ conditions[1].returned = EmptyConditions
               \/ conditions[1].returned.date = Some(getDateFilter(p, now))

\* the absolute date stands first and is the date of another day than today
C8_Witness ==
    /\ conditions # None
    /\ query = "reports 02_24_2025 and today"
    /\ AbsoluteDateCondition(query) = Some([gte |-> NewDate(2025, 1, 24, 0, 0, 0, 0),
                                            lte |-> NewDate(2025, 1, 24, 23, 59, 59, 999)])
    /\ conditions[1].returned.date = Some(getDateFilter("today", now))
    /\ conditions[1].returned.date # AbsoluteDateCondition(query)

\* C9: a component query for a name no collection has, answered without an error of
\* the store, returns another message than the one returned for a collection that
\* exists and holds no records.
C9_MissingPartitionMessageDiffers ==
    \A i \in Invocations :
        (/\ Returned(i)
         /\ calls[i].componentName # None
         /\ calls[i].componentName[1] \notin DOMAIN partitions
         /\ \A k \in DOMAIN calls[i].reads : calls[i].reads[k].returned >= 0) =>
            calls[i].ret # EmptyCollectionMessage(calls[i].componentName[1])

\* the calendar, counted day by day
IsLeapYear(y) == (y % 4 = 0 /\ y % 100 # 0) \/ y % 400 = 0

\* m is 1..12
MonthLength(y, m) ==
    IF m = 2 THEN (IF IsLeapYear(y) THEN 29 ELSE 28)
    ELSE IF m \in {4, 6, 9, 11} THEN 30 ELSE 31

RECURSIVE DaysBeforeYear(_)
DaysBeforeYear(y) ==
    IF y <= 1970 THEN 0 ELSE DaysBeforeYear(y - 1) + (IF IsLeapYear(y - 1) THEN 366 ELSE 365)

RECURSIVE DaysBeforeMonth(_, _)
DaysBeforeMonth(y, m) ==
    IF m <= 1 THEN 0 ELSE DaysBeforeMonth(y, m - 1) + MonthLength(y, m - 1)

CivilDay(y, m, d) == DaysBeforeYear(y) + DaysBeforeMonth(y, m) + d - 1

CivilYear(day) ==
    CHOOSE y \in (MaxYear - NumYears)..(MaxYear + 1) :
        CivilDay(y, 1, 1) <= day /\ day < CivilDay(y + 1, 1, 1)

CivilMonth(day) ==
    CHOOSE m \in 1..12 :
        /\ CivilDay(CivilYear(day), m, 1) <= day
        /\ day < CivilDay(CivilYear(day), m, 1) + MonthLength(CivilYear(day), m)

LastInstantOfDay == ((23 * 60 + 59) * 60 + 59) * 1000 + 999

\* C10: at every current instant, getDateFilter("last month") is the interval from
\* 00:00:00.000 of the first day of the previous calendar month to 23:59:59.999 of
\* its last day; the month before January is December of the year before.
C10_LastMonthInterval ==
    (filter # None /\ period = "last month") =>
        LET y  == CivilYear(now[1])
            m  == CivilMonth(now[1])
            py == IF m = 1 THEN y - 1 ELSE y
            pm == IF m = 1 THEN 12 ELSE m - 1
        IN  filter[1] = [gte |-> <<CivilDay(py, pm, 1), 0>>,
                         lte |-> <<CivilDay(py, pm, MonthLength(py, pm)), LastInstantOfDay>>]

\* a current instant in January: last month is the December before
C10_Witness ==
    /\ filter # None /\ period = "last month"
    /\ CivilMonth(now[1]) = 1 /\ CivilYear(now[1]) = MaxYear
    /\ filter[1].gte = <<CivilDay(MaxYear - 1, 12, 1), 0>>
    /\ filter[1].lte = <<CivilDay(MaxYear - 1, 12, 31), LastInstantOfDay>>

\* C11 as claimed: for the periods today, this week and this month the end of the
\* interval of getDateFilter is the instant of the call.
C11_EndIsCurrentInstant ==
    (filter # None /\ period \in {"today", "this week", "this month"}) =>
        filter[1].lte = now

\* C11, amended: for the periods today, this week and this month the end of the
\* interval of getDateFilter is 23:59:59.999 of the day of the call.
C11_EndIsEndOfCurrentDay ==
    (filter # None /\ period \in {"today", "this week", "this month"}) =>
        filter[1].lte = <<now[1], LastInstantOfDay>>

\* a call at 12:30:15.500 for this week: the interval ends later that day
C11_Witness ==
    /\ filter # None /\ period = "this week"
    /\ now[2] = MakeTime(12, 30, 15, 500)
    /\ filter[1].lte = <<now[1], LastInstantOfDay>>
    /\ filter[1].lte # now

\* the first day of the week of a day: the last Sunday not after it (1970-01-04 was
\* a Sunday)
WeekStartDay(day) ==
    CHOOSE s \in (day - 6)..day : (s - CivilDay(1970, 1, 4)) % 7 = 0

\* is the instant t inside the closed interval f
Inside(t, f) == Before(f.gte, t) /\ Before(t, f.lte)

\* C12: the interval of yesterday ends one millisecond before 00:00:00.000 of today,
\* the interval of last week one millisecond before 00:00:00.000 of the first day of
\* the current week; the first instant of the current period is outside the interval.
C12_PriorPeriodEndsBeforeCurrent ==
    /\ (filter # None /\ period = "yesterday") =>
          /\ filter[1].lte = <<now[1] - 1, LastInstantOfDay>>
          /\ ~Inside(<<now[1], 0>>, filter[1])
    /\ (filter # None /\ period = "last week") =>
          /\ filter[1].lte = <<WeekStartDay(now[1]) - 1, LastInstantOfDay>>
          /\ ~Inside(<<WeekStartDay(now[1]), 0>>, filter[1])

\* last week asked on a Wednesday: the interval ends with the Saturday four days before
C12_Witness ==
    /\ filter # None /\ period = "last week"
    /\ WeekStartDay(now[1]) = now[1] - 3
    /\ filter[1].lte = <<now[1] - 4, LastInstantOfDay>>
    /\ filter[1].gte = <<now[1] - 10, 0>>

\* are the records of rs in descending order of the field named
SortedDescBy(rs, field) ==
    \A i, j \in DOMAIN rs : i < j => rs[j][field] <= rs[i][field]

\* the records of the collection c that also stand in rs, as a bag of positions: rs
\* is a rearrangement of the records of c that satisfy Keep
RearrangementOf(rs, c, Keep(_)) ==
    \A doc \in Range(c) \cup Range(rs) :
        Cardinality({i \in DOMAIN rs : rs[i] = doc})
            = IF Keep(doc) THEN Cardinality({i \in DOMAIN c : c[i] = doc}) ELSE 0

\* the sum of actual_production over the records of the component named
RECURSIVE ProductionOf(_, _)
ProductionOf(c, name) ==
    IF c = <<>> THEN 0
    ELSE (IF Head(c).component_name = name THEN Head(c).actual_production ELSE 0)
             + ProductionOf(Tail(c), name)

\* C13: handleAggregationQuery runs one pipeline, chosen by priority: with isNGQuery
\* the records whose ng_parts is positive, by ng_parts descending, at most 10;
\* otherwise with isComponentList one group per component name with its count, its
\* sum of actual_production and its latest date, by the sum descending; otherwise
\* with needsAggregation all records by actual_production descending, at most 10;
\* otherwise all records by date descending, at most 20.
C13_PipelineByPriority ==
    pipeline # None =>
        LET flags == intentFlags[1]
            ran   == pipeline[1].pipeline
            rs    == pipeline[1].results
            Every(doc) == TRUE
            Ng(doc)  == doc.ng_parts > 0
        IN  IF flags.isNGQuery
            THEN /\ ran = << [stage |-> "$match", field |-> "ng_parts", n |-> 0],
                             [stage |-> "$sort",  field |-> "ng_parts", n |-> -1],
                             [stage |-> "$limit", field |-> "", n |-> 10] >>
                 /\ Len(rs) <= 10 /\ SortedDescBy(rs, "ng_parts")
                 /\ RearrangementOf(rs, reports, Ng)
            ELSE IF flags.isComponentList
            THEN /\ Len(ran) = 2
                 /\ ran[1].stage = "$group" /\ ran[1].field = "component_name"
                 /\ DOMAIN ran[1].accumulators = {"total_batches", "total_production", "latest_date"}
                 /\ ran[2] = [stage |-> "$sort", field |-> "total_production", n |-> -1]
                 /\ SortedDescBy(rs, "total_production")
                 /\ {rs[i]._id : i \in DOMAIN rs} = {reports[k].component_name : k \in DOMAIN reports}
                 /\ \A i, j \in DOMAIN rs : rs[i]._id = rs[j]._id => i = j
                 /\ \A i \in DOMAIN rs :
                       LET of == {k \in DOMAIN reports : reports[k].component_name = rs[i]._id}
                       IN  /\ rs[i].total_batches = Cardinality(of)
                           /\ rs[i].total_production = ProductionOf(reports, rs[i]._id)
                           /\ \E k \in of : reports[k].date = rs[i].latest_date
                           /\ \A k \in of : Before(reports[k].date, rs[i].latest_date)
            ELSE IF flags.needsAggregation
            THEN /\ ran = << [stage |-> "$sort", field |-> "actual_production", n |-> -1],
                             [stage |-> "$limit", field |-> "", n |-> 10] >>
                 /\ Len(rs) <= 10 /\ SortedDescBy(rs, "actual_production")
                 /\ RearrangementOf(rs, reports, Every)
            ELSE /\ ran = << [stage |-> "$sort", field |-> "date", n |-> -1],
                             [stage |-> "$limit", field |-> "", n |-> 20] >>
                 /\ Len(rs) <= 20
                 /\ \A i, j \in DOMAIN rs : i < j => Before(rs[j].date, rs[i].date)
                 /\ RearrangementOf(rs, reports, Every)

\* the three flags set together: the NG pipeline runs, and leaves out the record
\* without NG parts
C13_Witness ==
    /\ pipeline # None
    /\ intentFlags[1].isNGQuery /\ intentFlags[1].isComponentList
    /\ intentFlags[1].needsAggregation
    /\ pipeline[1].pipeline = NGPipeline
    /\ Len(reports) = 2 /\ Len(pipeline[1].results) = 1
    /\ pipeline[1].results[1].ng_parts = 3

\* C14: an invocation whose question holds a delimited name reads the collection of
\* that literal name first, with find, and never reads Reports, whatever intent flags
\* the question sets; the read returns at most 20 records, and queryMongoDB returns
\* what queryComponentDetails makes of them: its empty-collection message, its error
\* message, or the formatted records.
C14_ComponentNameRoutesToPartition ==
    \A i \in Invocations :
        LET call == calls[i]
            name == call.componentName[1]
        IN  call.componentName # None =>
              /\ \A k \in DOMAIN call.reads :
                    /\ call.reads[k].collection \in {name, "Defects"}
                    /\ call.reads[k].returned <= (IF call.reads[k].collection = name THEN 20
                                                  ELSE Len(defects))
              /\ call.reads # <<>> =>
                    /\ call.reads[1].collection = name
                    /\ call.reads[1].operation = "find"
              /\ (Returned(i) /\ call.reads # <<>>) =>
                    LET held == IF name \in DOMAIN partitions THEN partitions[name] ELSE <<>>
                        n    == IF Len(held) < 20 THEN Len(held) ELSE 20
                    IN  IF call.reads[1].returned = -1
                        THEN \E message \in StoreErrors :
                                 call.ret = ComponentErrorMessage(name, message)
                        ELSE /\ call.reads[1].returned = n
                             /\ \/ n = 0 /\ call.ret = EmptyCollectionMessage(name)
                                \/ n > 0 /\ call.ret = ComponentErrorMessage(name, MapNotAFunction)
                                \/ n > 0 /\ call.ret = Stringify([k \in 1..n |->
                                                          FormatComponent(held[k], n)])

\* a question that names a component and sets the NG, aggregation and component-list
\* flags, on a collection of more than 20 records: 20 are read and formatted
C14_Witness ==
    \E i \in Invocations :
        /\ Returned(i)
        /\ calls[i].question = "most ng parts of 'ABC_1'"
        /\ analyzeQuery(calls[i].question).isNGQuery
        /\ analyzeQuery(calls[i].question).needsAggregation
        /\ Len(partitions["ABC_1"]) > 20
        /\ calls[i].reads # <<>>
        /\ calls[i].reads[1].collection = "ABC_1" /\ calls[i].reads[1].returned = 20
        /\ calls[i].ret = Stringify([k \in 1..20 |-> FormatComponent(partitions["ABC_1"][k], 20)])

\* the question is a general or a component-list one: it holds "component" or
\* "part", or "data" after "what", "which", "available" or "have"
GeneralOrList(q) ==
    \/ Includes(toLowerCase(q), "component") \/ Includes(toLowerCase(q), "part")
    \/ \E w \in {"what", "which", "available", "have"} : IncludesThen(toLowerCase(q), w, "data")

\* C15: for a question that holds "performance", "efficiency" or "quality" and is
\* neither a general nor a component-list one, the predicate parseQuery returns has
\* the clause that one of the fields performance and quality exists and is not null,
\* also when the question names a batch, a date or a production threshold.
C15_PerformanceClauseAlwaysPresent ==
    (/\ conditions # None
     /\ \E w \in {"performance", "efficiency", "quality"} : Includes(toLowerCase(query), w)
     /\ ~GeneralOrList(query)) =>
        /\ conditions[1].returned.or # None
        /\ {conditions[1].returned.or[1][k].field : k \in DOMAIN conditions[1].returned.or[1]}
              = {"performance", "quality"}

\* C16: parseQuery returns the predicate without constraints when the question is a
\* general or a component-list one, whatever constraints it has built, and the
\* constraints it has built otherwise.
C16_GeneralOrListDiscardsConstraints ==
    conditions # None =>
        conditions[1].returned = IF GeneralOrList(query) THEN EmptyConditions
                                 ELSE conditions[1].built

\* a component-list question for which a batch, a component and a date constraint
\* were built: none is returned
C16_Witness ==
    /\ conditions # None
    /\ query = "parts of batch A_1 today"
    /\ conditions[1].built.batch_id = Some([regex |-> FALSE, value |-> "A_1"])
    /\ conditions[1].built.component_name # None
    /\ conditions[1].built.date = Some(getDateFilter("today", now))
    /\ conditions[1].returned = EmptyConditions

\* what queryMongoDB returns for the question and the failures of a call when it is
\* the only one to run against the database
AloneResult(call) ==
    LET name == call.componentName[1]
        held == IF name \in DOMAIN partitions THEN FirstN(partitions[name], 20) ELSE <<>>
        read == ReportsRead(call.question, now)
        rs   == IF read.operation = "aggregate" THEN Aggregate(reports, read.argument)
                ELSE FindReports(reports, read.argument)
    IN  IF call.reads = <<>> THEN QueryErrorMessage("connection timed out")
        ELSE IF call.componentName # None
        THEN IF call.reads[1].returned = -1
             THEN ComponentErrorMessage(name, "connection timed out")
             ELSE IF held = <<>> THEN EmptyCollectionMessage(name)
             ELSE Stringify([k \in DOMAIN held |-> FormatComponent(held[k], Len(held))])
        ELSE IF call.reads[Len(call.reads)].returned = -1
             THEN QueryErrorMessage("connection timed out")
             ELSE ReportsResult(rs, IF call.reads[1].returned = -1 THEN EmptyDefectMap
                                    ELSE DefectMapOf(defects))

\* C17: of two invocations whose steps interleave, each has a client of its own: it
\* is connected from its connect to its close whatever the other invocation does,
\* every read is made on it while it is connected, it is closed once; and what
\* queryMongoDB returns to an invocation is what it returns to it alone on the same
\* database.
C17_InterleavedInvocationsShareNothing ==
    \A i \in TwoInvocations :
        /\ calls[i].pc = "connect" => calls[i].client = "created"
        /\ calls[i].pc \in {"componentFind", "componentDefects", "loadDefects", "query"}
              => calls[i].client = "connected"
        /\ \A k \in DOMAIN calls[i].reads : calls[i].reads[k].client = "connected"
        /\ calls[i].closeCalls <= 1
        /\ calls[i].pc = "generate" => calls[i].ret = AloneResult(calls[i])

\* the first invocation has closed its client while the second, which asks for a
\* component, is between its connect and its read, and then the other way round
C17_Witness ==
    /\ calls[1].pc = "generate" /\ calls[1].client = "closed"
    /\ calls[1].question = "most ng batches" /\ Len(calls[1].reads) = 2
    /\ calls[2].pc = "componentFind" /\ calls[2].client = "connected"
    /\ calls[2].question = "status of 'ABC_1'"

\* C18: an invocation on the Reports path reads the Defects collection itself, first,
\* on its connected client, and the catalog it maps with is the one the collection
\* holds during the invocation: after the collection has changed between two
\* invocations, the result of the second carries the labels of the changed catalog.
C18_CatalogReadAtEveryInvocation ==
    \A i \in TwoInvocations :
        (/\ calls[i].componentName = None
         /\ calls[i].pc \in {"query", "finally", "generate"}
         /\ calls[i].reads # <<>>) =>
            /\ calls[i].reads[1].collection = "Defects"
            /\ calls[i].reads[1].client = "connected"
            /\ calls[i].reads[1].returned >= 0 =>
                  /\ calls[i].defectMap = DefectMapOf(defects)
                  /\ (/\ calls[i].pc = "generate" /\ Len(calls[i].reads) = 2
                      /\ calls[i].reads[2].returned >= 0) =>
                        calls[i].ret = ReportsResult(Aggregate(reports, calls[i].reads[2].argument),
                                                     DefectMapOf(defects))

\* the same question asked twice, the catalog changed in between: two results
C18_Witness ==
    /\ calls[1].pc = "done" /\ calls[2].pc = "generate"
    /\ calls[1].question = "most ng batches" /\ calls[2].question = "most ng batches"
    /\ Len(calls[1].reads) = 2 /\ Len(calls[2].reads) = 2
    /\ \A i \in TwoInvocations : \A k \in 1..2 : calls[i].reads[k].returned >= 0
    /\ calls[1].defectMap # DefectMapOf(defects)
    /\ calls[2].ret = ReportsResult(Aggregate(reports, NGPipeline), DefectMapOf(defects))
    /\ calls[1].ret # calls[2].ret

\* the text of a decision code under a table of texts
DecisionText(texts, code) ==
    IF code \in 0..(Len(texts) - 1) THEN texts[code + 1]
    ELSE "Unknown (" \o ToString(code) \o ")"

\* the formatted record renders the decisions of the record and of its images with
\* the texts given, and whether the formatting raises does not depend on the codes
RendersDecisions(componentTexts, imageTexts) ==
    formatted # None =>
        /\ formatted[1].raised
              = (\E k \in DOMAIN component[1].images :
                     component[1].images[k].ocr_algorithm = "object")
        /\ ~formatted[1].raised =>
              /\ formatted[1].record.component_decision
                    = DecisionText(componentTexts, component[1].component_decision)
              /\ formatted[1].record.component_decision_code = component[1].component_decision
              /\ DOMAIN formatted[1].record.images = DOMAIN component[1].images
              /\ \A k \in DOMAIN component[1].images :
                    /\ formatted[1].record.images[k].decision
                          = DecisionText(imageTexts, component[1].images[k].decision)
                    /\ formatted[1].record.images[k].decision_code
                          = component[1].images[k].decision

\* C19 as claimed: the component decision codes 0..4 render as OK, NG, Maybe, Rework,
\* Unknown and the image decision codes 0..2 as OK, NG, Maybe; any other code renders
\* as "Unknown (code)", and the record is formatted without an error.
C19_DecisionTexts ==
    RendersDecisions(<<"OK", "NG", "Maybe", "Rework", "Unknown">>, <<"OK", "NG", "Maybe">>)

\* C19, amended: the component decision code 4 renders as "Unknown Status"; the rest
\* as claimed.
C19_DecisionTextsOfTheTables ==
    RendersDecisions(<<"OK", "NG", "Maybe", "Rework", "Unknown Status">>, <<"OK", "NG", "Maybe">>)

\* a record of decision 5 with an image of decision 3: both render as Unknown (code)
C19_Witness ==
    /\ formatted # None /\ ~formatted[1].raised
    /\ component[1].component_decision = 5
    /\ formatted[1].record.component_decision = "Unknown (5)"
    /\ Len(component[1].images) = 1 /\ component[1].images[1].decision = 3
    /\ formatted[1].record.images[1].decision = "Unknown (3)"
    /\ formatted[1].record.component_id = "c1"

\* the instant of an epoch in milliseconds, and the texts that are dates
EpochInstants ==
    [e \in {"0", "1000", "86400000"} |->
        CASE e = "0" -> "1970-01-01T00:00:00.000Z"
          [] e = "1000" -> "1970-01-01T00:00:01.000Z"
          [] e = "86400000" -> "1970-01-02T00:00:00.000Z"]
DateTexts == {"1970-01-02T00:00:00.000Z", "2025-01-15T10:30:00.250Z"}

\* C20: the formatting of a record with a timestamp never raises because of it: a
\* nested long-integer epoch, a nested date string, a raw numeric epoch and a raw
\* date string that can be read yield that instant, one that cannot be read yields
\* "Invalid timestamp", and the rest of the record is formatted and returned.
C20_TimestampNormalized ==
    (formatted # None /\ component[1].timestamp # None) =>
        LET ts == component[1].timestamp[1]
        IN  /\ formatted[1].raised
                  = (\E k \in DOMAIN component[1].images :
                         component[1].images[k].ocr_algorithm = "object")
            /\ ~formatted[1].raised =>
                  /\ formatted[1].record.component_id = component[1].component_id
                  /\ formatted[1].record.component_decision_code = component[1].component_decision
                  /\ formatted[1].record.timestamp =
                        CASE ts.enc = "numberLong" ->
                                 IF ts.text \in DOMAIN EpochInstants THEN EpochInstants[ts.text]
                                 ELSE "Invalid timestamp"
                          [] ts.enc = "number" -> EpochInstants[ToString(ts.number)]
                          [] OTHER ->
                                 IF ts.text \in DateTexts THEN ts.text ELSE "Invalid timestamp"

\* the failure an error of the store reports, by its message: the name is unusable as
\* a lookup key, no partition has the name, or another failure
FailureOf(message) ==
    IF Includes(message, "collection name must be a string") THEN "unusable name"
    ELSE IF Includes(message, "ns not found") \/ Includes(message, "Collection")
    THEN "no partition" ELSE "other"

FirstKeywordAt(q) ==
    LET at == {i \in 1..Len(q) : \E k \in Periods : At(toLowerCase(q), i, k)}
    IN  IF at = {} THEN 0 ELSE SetMin(at)
FirstDigitDateAt(q) ==
    LET at == {i \in 1..Len(q) : OlderAbsoluteAt(q, i) # None}
    IN  IF at = {} THEN 0 ELSE SetMin(at)

\* the date condition of the day an absolute date names: none when it names no day
DayCondition(text) ==
    LET month == parseInt(SubSeq(text, 1, 2))
        day   == parseInt(SubSeq(text, 4, 5))
        year  == parseInt(SubSeq(text, 7, 10))
    IN  IF month \in 1..12 /\ day \in 1..31
        THEN Some([gte |-> <<CivilDay(year, month, 1) + day - 1, 0>>,
                   lte |-> <<CivilDay(year, month, 1) + day - 1, MsPerDay - 1>>])
        ELSE None

\* C22 as claimed: in the older parseQuery, a question that holds a relative period
\* keyword and an absolute digit-pattern date gets the date condition of the absolute
\* date.
C22_OlderAbsoluteDateWins ==
    (/\ olderConditions # None
     /\ FirstKeywordAt(query) > 0 /\ FirstDigitDateAt(query) > 0) =>
        olderConditions[1].date
            = DayCondition(SubSeq(query, FirstDigitDateAt(query), FirstDigitDateAt(query) + 9))

\* C22, amended: of the two, the one that stands first in the question determines the
\* date condition: the keyword's interval, or the day of the absolute date.
C22_OlderLeftmostDateWins ==
    (/\ olderConditions # None
     /\ FirstKeywordAt(query) > 0 /\ FirstDigitDateAt(query) > 0) =>
        IF FirstDigitDateAt(query) < FirstKeywordAt(query)
        THEN olderConditions[1].date
                 = DayCondition(SubSeq(query, FirstDigitDateAt(query), FirstDigitDateAt(query) + 9))
        ELSE \E p \in Periods :
                 /\ At(toLowerCase(query), FirstKeywordAt(query), p)
                 /\ olderConditions[1].date = Some(OlderGetDateFilter(p, now))

\* a question with the keyword first and the date after it, answered with the interval
\* of the keyword, which is not the day of the date
C22_Witness ==
    /\ olderConditions # None
    /\ query = "reports yesterday and 02_24_2025"
    /\ olderConditions[1].date # None
    /\ olderConditions[1].date[1].lte = startOfDay(now)
    /\ olderConditions[1].date # DayCondition("02_24_2025")

\* the component keywords of the handler, and the questions that hold one
ComponentKeywords == {"component", "part", "inspect", "defect", "status", "decision", "image"}
HoldsKeyword(q) ==
    \E w \in ComponentKeywords : \E i \in 1..Len(q) :
        i + Len(w) - 1 <= Len(q) /\ SubSeq(toLowerCase(q), i, i + Len(w) - 1) = w

\* the question q holds no quoted and no asterisk-delimited name
NamesNothing(q) == \A d \in {"'", "\"", "*"} : Delimited(q, d) = {}

\* invocation i was answered with the help message, and touched neither the store nor
\* the language model
HelpOnly(i) ==
    /\ calls[i].pc = "done" /\ calls[i].outcome = "resolved" /\ calls[i].value = HelpMessage
    /\ calls[i].client = "none" /\ calls[i].reads = <<>>
    /\ calls[i].closeCalls = 0 /\ calls[i].modelCalls = 0

\* C23: the handler answers every question that holds a component keyword, in any
\* case, and no quoted or asterisk-delimited name with the help message, without
\* opening a connection to the store and without calling the language model.
C23_KeywordWithoutNameGetsHelp ==
    \A i \in DOMAIN calls :
        (calls[i].pc # "idle" /\ HoldsKeyword(calls[i].question)
            /\ NamesNothing(calls[i].question)) => HelpOnly(i)

\* a question with a keyword in capitals and no name was answered with the help message
C23_Witness ==
    \E i \in DOMAIN calls :
        /\ calls[i].question = "Show Defect counts"
        /\ HelpOnly(i)

\* C24: through the handler the group-by-component pipeline is never run: every
\* question for which analyzeQuery sets isComponentList gets the help message or is
\* routed to the component partition it names.
C24_ComponentListPipelineNeverRuns ==
    \A i \in DOMAIN calls :
        /\ \A k \in DOMAIN calls[i].reads :
              calls[i].reads[k].operation = "aggregate"
                  => calls[i].reads[k].argument # ComponentListPipeline
        /\ (calls[i].pc # "idle" /\ analyzeQuery(calls[i].question).isComponentList) =>
              \/ HelpOnly(i)
              \/ /\ ~NamesNothing(calls[i].question)
                 /\ \A k \in DOMAIN calls[i].reads :
                       /\ calls[i].reads[k].collection # "Reports"
                       /\ calls[i].reads[k].operation = "find"

\* a component-list question that names a component has read the partition, and a
\* component-list question that names none has got the help message
C24_Witness ==
    \E i \in DOMAIN calls :
        /\ analyzeQuery(calls[i].question).isComponentList
        /\ calls[i].question = "most ng parts of 'ABC_1'"
        /\ calls[i].pc = "done"
        /\ Len(calls[i].reads) = 2
        /\ calls[i].reads[1].collection = "ABC_1"
        /\ calls[i].reads[2].collection = "Defects"

\* the reads of Reports invocation i has made
ReportsReads(i) ==
    {calls[i].reads[k] : k \in {j \in DOMAIN calls[i].reads :
                                    calls[i].reads[j].collection = "Reports"}}

\* the number of records of the Reports collection that satisfy a predicate
MatchCount(predicate) ==
    Cardinality({k \in DOMAIN reports : Matches(reports[k], predicate)})

\* what C25 says of the aggregations and of the questions with neither flag: Reports
\* is aggregated only for a question with needsAggregation or isComponentList, never
\* with the default pipeline, and a question with neither flag is answered by
\* find(parseQuery(question)) with limit 20
AggregationOnlyWhenFlagged ==
    \A i \in DOMAIN calls : \A r \in ReportsReads(i) :
        LET flags == analyzeQuery(calls[i].question)
        IN  /\ r.operation = "aggregate" =>
                  /\ flags.needsAggregation \/ flags.isComponentList
                  /\ r.argument # DefaultPipeline
            /\ (~flags.needsAggregation /\ ~flags.isComponentList) =>
                  /\ r.operation = "find"
                  /\ r.argument = parseQuery(calls[i].question, now)
                  /\ r.returned >= 0 =>
                        r.returned = (IF MatchCount(r.argument) > 20 THEN 20
                                      ELSE MatchCount(r.argument))

\* C25 as claimed: the aggregations and the questions with neither flag as above, and
\* an NG question without needsAggregation is answered with the ng_parts predicate of
\* parseQuery instead of the NG pipeline.
C25_NgQuestionUsesNgPartsPredicate ==
    /\ AggregationOnlyWhenFlagged
    /\ \A i \in DOMAIN calls : \A r \in ReportsReads(i) :
          LET flags == analyzeQuery(calls[i].question)
          IN  (flags.isNGQuery /\ ~flags.needsAggregation) =>
                  /\ r.operation = "find"
                  /\ r.argument.ng_parts # None

\* C25, amended: the aggregations and the questions with neither flag as above, for
\* the questions that name no component; an NG question without needsAggregation is
\* answered by find with the predicate of parseQuery instead of the NG pipeline, and
\* the predicate holds ng_parts > 0 unless the question is a general one, whose
\* predicate is empty.
C25_NgQuestionUsesPredicateOfParseQuery ==
    /\ AggregationOnlyWhenFlagged
    /\ \A i \in DOMAIN calls : \A r \in ReportsReads(i) :
          LET flags == analyzeQuery(calls[i].question)
          IN  /\ NamesNothing(calls[i].question)
              /\ (flags.isNGQuery /\ ~flags.needsAggregation) =>
                    /\ r.operation = "find"
                    /\ IF flags.isGeneralQuery THEN r.argument = EmptyConditions
                       ELSE r.argument.ng_parts = Some([exists |-> TRUE, gt |-> 0])

\* an NG question without needsAggregation has read Reports with find and the ng_parts
\* predicate, on a collection with more than 20 records that satisfy it, and got 20
C25_Witness ==
    \E i \in DOMAIN calls : \E r \in ReportsReads(i) :
        /\ calls[i].question = "show ng reports"
        /\ r.operation = "find" /\ r.argument.ng_parts # None
        /\ MatchCount(r.argument) > 20 /\ r.returned = 20

\* the instant one millisecond after the instant t
NextMillisecond(t) == IF t[2] = MsPerDay - 1 THEN <<t[1] + 1, 0>> ELSE <<t[1], t[2] + 1>>

\* the period that follows a period of the past
FollowingPeriod ==
    ("yesterday" :> "today") @@ ("last week" :> "this week") @@ ("last month" :> "this month")

\* C26: at every current instant an interval of getDateFilter has its start not after
\* its end, and of yesterday and today, last week and this week, last month and this
\* month the earlier interval ends exactly one millisecond before the later one starts.
C26_IntervalsOrderedAndAdjacent ==
    filter # None =>
        /\ Before(filter[1].gte, filter[1].lte)
        /\ period \in DOMAIN FollowingPeriod =>
              /\ NextMillisecond(filter[1].lte) = getDateFilter(FollowingPeriod[period], now).gte
              /\ filter[1].lte # getDateFilter(FollowingPeriod[period], now).gte
        /\ \A earlier \in DOMAIN FollowingPeriod :
              period = FollowingPeriod[earlier] =>
                  filter[1].gte = NextMillisecond(getDateFilter(earlier, now).lte)

\* last month asked in March of a leap year: the interval ends with the last
\* millisecond of February 29, and this month starts with the next one
C26_Witness ==
    /\ filter # None /\ period = "last month"
    /\ IsLeapYear(CivilYear(now[1])) /\ CivilMonth(now[1]) = 3
    /\ filter[1].lte = <<CivilDay(CivilYear(now[1]), 2, 29), LastInstantOfDay>>
    /\ getDateFilter("this month", now).gte = <<CivilDay(CivilYear(now[1]), 3, 1), 0>>

\* the entries of an occurrence array when no defect is known: one entry for every
\* positive count, under the label of its id, the index counted from one
UnknownEntries(occurrences, defectType) ==
    LET ids == {k \in DOMAIN occurrences : occurrences[k] > 0}
        IdOf(label) == CHOOSE k \in ids : label = "Unknown_Defect_" \o ToString(k)
    IN  [label \in {"Unknown_Defect_" \o ToString(k) : k \in ids} |->
            [count |-> occurrences[IdOf(label)],
             description |-> "Unknown defect with ID " \o ToString(IdOf(label)),
             is_acceptable |-> "unknown",
             defect_type |-> defectType]]

\* a report record with its occurrence arrays as entries of unknown defects
WithUnknownEntries(item) ==
    [f \in DOMAIN item |->
        CASE f = "defect_occurrences" -> UnknownEntries(item[f], "object_detection")
          [] f = "ocr_defect_occurrences" -> UnknownEntries(item[f], "ocr")
          [] f = "dimensional_defect_occurrences" -> UnknownEntries(item[f], "dimensional")
          [] OTHER -> item[f]]

\* the read of the Defects collection of invocation i has failed
CatalogReadFailed(i) ==
    \E k \in DOMAIN calls[i].reads :
        calls[i].reads[k].collection = "Defects" /\ calls[i].reads[k].returned = -1

\* the records the store returns for a read of Reports
RecordsOf(read) ==
    IF read.operation = "aggregate" THEN Aggregate(reports, read.argument)
    ELSE FindReports(reports, read.argument)

\* C27: when the read of the Defects collection fails, the catalog is empty and nothing
\* is raised; the report query of the invocation still runs, and the records it
\* returns carry every positive occurrence count under its Unknown_Defect_{id} label.
C27_FailedCatalogReadGivesUnknownLabels ==
    \A i \in DOMAIN calls :
        (CatalogReadFailed(i) /\ NamesNothing(calls[i].question)) =>
            /\ calls[i].defectMap = EmptyDefectMap
            /\ calls[i].pc # "loadDefects"
            /\ calls[i].pc \in {"finally", "generate", "done"} => ReportsReads(i) # {}
            /\ \A r \in ReportsReads(i) :
                  (Returned(i) /\ r.returned > 0) =>
                      /\ calls[i].ret = ReportsResult(RecordsOf(r), calls[i].defectMap)
                      /\ \A k \in DOMAIN RecordsOf(r) :
                            FormatReport(RecordsOf(r)[k], calls[i].defectMap)
                                = WithUnknownEntries(RecordsOf(r)[k])

\* the catalog could not be read, and the report of yesterday was returned with the
\* counts of its defects 1 and 3 under their unknown labels
C27_Witness ==
    \E i \in DOMAIN calls : \E r \in ReportsReads(i) :
        /\ CatalogReadFailed(i) /\ Returned(i)
        /\ calls[i].question = "show reports from yesterday"
        /\ Len(defects) > 0
        /\ r.returned = 1
        /\ RecordsOf(r)[1].defect_occurrences = <<2, 0, 1>>
        /\ calls[i].ret = ReportsResult(RecordsOf(r), calls[i].defectMap)
        /\ DOMAIN FormatReport(RecordsOf(r)[1], calls[i].defectMap).defect_occurrences
               = {"Unknown_Defect_1", "Unknown_Defect_3"}


\* the question of a request is missing or blank
MissingOrBlank(question) ==
    \/ question.kind = "missing"
    \/ question.kind = "text" /\ Len(trim(question.text)) = 0

\* productionAgent is unset exactly until the startup callback has finished, and
\* then it is the real agent or, after a failed initialization, the fallback
AgentSetByStartup ==
    /\ (server.productionAgent = "unset") <=> (server.startup = "initializing")
    /\ server.startup = "finished" =>
           server.productionAgent
               = IF server.initializationError = None THEN "real" ELSE "fallback"

\* C28: productionAgent is unset only until the startup callback finishes and is
\* then the real agent or, when initialization failed, the fallback agent; POST
\* /api/query answers 503 only before that point, answers 400 without calling the
\* agent when the question is missing or blank, and otherwise calls the agent
\* exactly once.
C28_AgentCalledOnceUnlessMissingOrBlank ==
    /\ AgentSetByStartup
    /\ \A k \in DOMAIN server.requests :
          LET r == server.requests[k]
          IN /\ r.status = 503 => r.agentAtArrival = "unset"
             /\ r.agentAtArrival # "unset" =>
                    IF MissingOrBlank(r.question)
                    THEN r.status = 400 /\ r.agentCalls = 0
                    ELSE r.agentCalls = 1

\* the same for the questions that are missing or texts
C28_AgentCalledOnceForTexts ==
    /\ AgentSetByStartup
    /\ \A k \in DOMAIN server.requests :
          LET r == server.requests[k]
          IN /\ r.status = 503 <=> r.agentAtArrival = "unset"
             /\ (r.agentAtArrival # "unset" /\ r.question.kind # "number") =>
                    IF MissingOrBlank(r.question)
                    THEN r.status = 400 /\ r.agentCalls = 0
                    ELSE r.agentCalls = 1 /\ r.called = r.agentAtArrival

\* a number that is not 0 is answered 500 and the agent is not called
C28_NumberAnswered500 ==
    \E k \in DOMAIN server.requests :
        /\ server.requests[k].question = NumberQuestion(5)
        /\ server.requests[k].agentAtArrival = "real"
        /\ server.requests[k].status = 500
        /\ server.requests[k].agentCalls = 0

\* the requests of the client that have no answer yet
InFlight == {k \in DOMAIN posts : posts[k].state = "inflight"}

\* a step in which handleSubmit ran while loading was true or the input was blank
IgnoredSubmit ==
    /\ Len(client'.submits) = Len(client.submits) + 1
    /\ client.loading \/ Len(trim(client.input)) = 0

\* a step in which a request got its answer or failed
RequestCompletes == \E k \in InFlight : posts'[k].state # "inflight"

\* C29: the chat client never has two requests in flight: loading is true exactly
\* while one request is in flight; a submit while loading is true, or with blank
\* input, sends nothing and changes nothing of the React state (only the list of
\* submit events of the model grows); when a request completes, with a response
\* or with an error, loading is false and the input is empty.
C29_AtMostOneRequestInFlight ==
    /\ [](Cardinality(InFlight) <= 1 /\ (client.loading <=> InFlight # {}))
    /\ [][IgnoredSubmit =>
              /\ posts' = posts
              /\ [client' EXCEPT !.submits = client.submits] = client]_vars
    /\ [][RequestCompletes => (~client'.loading /\ client'.input = "")]_vars

\* a submit was ignored while a request was in flight, one request has got its
\* response and one has failed, and after the last completion loading is false
\* and the input is empty
C29_Witness ==
    /\ \E j \in DOMAIN client.submits : client.submits[j] = "loading"
    /\ \E k \in DOMAIN posts : posts[k].state = "responded"
    /\ \E k \in DOMAIN posts : posts[k].state = "failed"
    /\ InFlight = {} /\ ~client.loading /\ client.input = ""

\* the response of request k has been received
ResponseReceived(k) == k \in DOMAIN posts /\ posts[k].state = "responded"

\* the conversation holds, directly after the user message of request k, the
\* assistant message with the whole response of request k
AppendedAfterItsQuestion(k) ==
    /\ k \in DOMAIN posts
    /\ posts[k].userIndex + 1 \in DOMAIN client.conversation
    /\ client.conversation[posts[k].userIndex] = UserMessage(posts[k].question)
    /\ client.conversation[posts[k].userIndex + 1] = AssistantMessage(posts[k].response)

AssistantMessages == {j \in DOMAIN client.conversation : client.conversation[j].role = "assistant"}

\* C30: while clearConversation is not invoked, every response received from
\* /api/query is eventually appended to the conversation as exactly one assistant
\* message carrying the full response text, directly after the user message that
\* caused it, for every interleaving of submits, response arrivals and timer ticks.
C30_EveryResponseAppendedAfterItsQuestion ==
    /\ [](Cardinality(AssistantMessages) <= Cardinality(DOMAIN posts \ InFlight))
    /\ \A k \in 1..MaxSends : [](ResponseReceived(k) => <>AppendedAfterItsQuestion(k))

\* a response that is still being typed is replaced by the next response and is
\* never appended
C30_ResponseLost ==
    /\ Len(posts) = 2 /\ InFlight = {}
    /\ posts[1].state = "responded" /\ posts[1].response = "ok"
    /\ posts[2].state = "responded" /\ posts[2].response = "no"
    /\ client.streamingMessage = None
    /\ client.conversation = <<UserMessage(posts[1].question), UserMessage(posts[2].question),
                               AssistantMessage("no")>>

\* the response of the first question is appended after the second question
C30_ResponseOutOfPlace ==
    /\ Len(posts) = 2
    /\ posts[1].state = "responded"
    /\ client.conversation = <<UserMessage(posts[1].question), UserMessage(posts[2].question),
                               AssistantMessage(posts[1].response)>>

\* with one request at a time (the next submit waits for the typing to end)
\* every response is in its place once it is typed
C30_InPlaceWhenTypedBeforeNextSubmit ==
    (Len(posts) = 1 /\ ResponseReceived(1) /\ client.streamingMessage = None)
        => AppendedAfterItsQuestion(1)
=============================================================================
